---- MODULE Spec2Model ----
(***************************************************************************)
(* Preference memory engine of the interior-design agent: the preference   *)
(* store (table user_preferences), the keyword extractor, the confidence   *)
(* updater, the decay pass, the learning hooks, the context formatter and  *)
(* the hybrid retriever.                                                   *)
(*                                                                         *)
(* Numbers.  A confidence is kept in thousandths (1000 = 1.0), so the      *)
(* deltas 0.1 / 0.2 / 0.3, the base 0.3, the floor 0.05 and the threshold  *)
(* 0.5 are the integers 100 / 200 / 300, 300, 50 and 500.  Decimal         *)
(* arithmetic is exact here; the binary rounding error of Python floats    *)
(* (about 1e-16) is below the unit of the model.  The clock counts whole   *)
(* weeks, so  weeks = now - updated_at  is an integer.  A weekly decay     *)
(* rate is a fraction  [num, den]  (0.95 = 19/20).                         *)
(*                                                                         *)
(* Texts are sequences of one-character strings, so that lower-casing and  *)
(* substring search are computed as the extractor computes them.           *)
(***************************************************************************)
EXTENDS Integers, Sequences, FiniteSets, TLC

\* ------------------------------------------------------------------------
\* Keyword tables (learner.py), in dictionary order.
\* ------------------------------------------------------------------------
STYLE_KEYWORDS ==
  <<
    [value |-> "modern", keywords |-> <<
        <<"m", "o", "d", "e", "r", "n">>,
        <<"c", "o", "n", "t", "e", "m", "p", "o", "r", "a", "r", "y">>,
        <<"m", "i", "n", "i", "m", "a", "l", "i", "s", "t">>,
        <<"c", "l", "e", "a", "n">>>>],
    [value |-> "traditional", keywords |-> <<
        <<"t", "r", "a", "d", "i", "t", "i", "o", "n", "a", "l">>,
        <<"c", "l", "a", "s", "s", "i", "c">>,
        <<"v", "i", "n", "t", "a", "g", "e">>,
        <<"a", "n", "t", "i", "q", "u", "e">>>>],
    [value |-> "rustic", keywords |-> <<
        <<"r", "u", "s", "t", "i", "c">>,
        <<"f", "a", "r", "m", "h", "o", "u", "s", "e">>,
        <<"c", "o", "u", "n", "t", "r", "y">>,
        <<"n", "a", "t", "u", "r", "a", "l">>>>],
    [value |-> "industrial", keywords |-> <<
        <<"i", "n", "d", "u", "s", "t", "r", "i", "a", "l">>,
        <<"u", "r", "b", "a", "n">>,
        <<"l", "o", "f", "t">>,
        <<"m", "e", "t", "a", "l">>>>],
    [value |-> "bohemian", keywords |-> <<
        <<"b", "o", "h", "e", "m", "i", "a", "n">>,
        <<"b", "o", "h", "o">>,
        <<"e", "c", "l", "e", "c", "t", "i", "c">>,
        <<"c", "o", "l", "o", "r", "f", "u", "l">>>>],
    [value |-> "scandinavian", keywords |-> <<
        <<"s", "c", "a", "n", "d", "i", "n", "a", "v", "i", "a", "n">>,
        <<"n", "o", "r", "d", "i", "c">>,
        <<"s", "i", "m", "p", "l", "e">>,
        <<"f", "u", "n", "c", "t", "i", "o", "n", "a", "l">>>>]
  >>

WARMTH_KEYWORDS ==
  <<
    [value |-> "warm", keywords |-> <<
        <<"w", "a", "r", "m">>,
        <<"c", "o", "z", "y">>,
        <<"i", "n", "v", "i", "t", "i", "n", "g">>,
        <<"c", "o", "m", "f", "o", "r", "t", "a", "b", "l", "e">>>>],
    [value |-> "cool", keywords |-> <<
        <<"c", "o", "o", "l">>,
        <<"c", "r", "i", "s", "p">>,
        <<"f", "r", "e", "s", "h">>,
        <<"a", "i", "r", "y">>>>],
    [value |-> "neutral", keywords |-> <<
        <<"n", "e", "u", "t", "r", "a", "l">>,
        <<"b", "a", "l", "a", "n", "c", "e", "d">>,
        <<"m", "o", "d", "e", "r", "a", "t", "e">>>>]
  >>

COMPLEXITY_KEYWORDS ==
  <<
    [value |-> "simple", keywords |-> <<
        <<"s", "i", "m", "p", "l", "e">>,
        <<"m", "i", "n", "i", "m", "a", "l">>,
        <<"c", "l", "e", "a", "n">>,
        <<"u", "n", "c", "l", "u", "t", "t", "e", "r", "e", "d">>>>],
    [value |-> "moderate", keywords |-> <<
        <<"m", "o", "d", "e", "r", "a", "t", "e">>,
        <<"b", "a", "l", "a", "n", "c", "e", "d">>>>],
    [value |-> "complex", keywords |-> <<
        <<"d", "e", "t", "a", "i", "l", "e", "d">>,
        <<"o", "r", "n", "a", "t", "e">>,
        <<"e", "l", "a", "b", "o", "r", "a", "t", "e">>,
        <<"r", "i", "c", "h">>>>]
  >>

COLOR_KEYWORDS ==
  <<
    [value |-> "blue", keywords |-> <<
        <<"b", "l", "u", "e">>,
        <<"n", "a", "v", "y">>,
        <<"a", "z", "u", "r", "e">>,
        <<"c", "o", "b", "a", "l", "t">>>>],
    [value |-> "green", keywords |-> <<
        <<"g", "r", "e", "e", "n">>,
        <<"s", "a", "g", "e">>,
        <<"o", "l", "i", "v", "e">>,
        <<"e", "m", "e", "r", "a", "l", "d">>>>],
    [value |-> "gray", keywords |-> <<
        <<"g", "r", "a", "y">>,
        <<"g", "r", "e", "y">>,
        <<"c", "h", "a", "r", "c", "o", "a", "l">>,
        <<"s", "l", "a", "t", "e">>>>],
    [value |-> "white", keywords |-> <<
        <<"w", "h", "i", "t", "e">>,
        <<"i", "v", "o", "r", "y">>,
        <<"c", "r", "e", "a", "m">>,
        <<"o", "f", "f", "-", "w", "h", "i", "t", "e">>>>],
    [value |-> "black", keywords |-> <<
        <<"b", "l", "a", "c", "k">>,
        <<"e", "b", "o", "n", "y">>,
        <<"o", "n", "y", "x">>>>],
    [value |-> "brown", keywords |-> <<
        <<"b", "r", "o", "w", "n">>,
        <<"t", "a", "n">>,
        <<"b", "e", "i", "g", "e">>,
        <<"t", "a", "u", "p", "e">>,
        <<"c", "a", "r", "a", "m", "e", "l">>>>],
    [value |-> "red", keywords |-> <<
        <<"r", "e", "d">>,
        <<"b", "u", "r", "g", "u", "n", "d", "y">>,
        <<"c", "r", "i", "m", "s", "o", "n">>,
        <<"m", "a", "r", "o", "o", "n">>>>],
    [value |-> "yellow", keywords |-> <<
        <<"y", "e", "l", "l", "o", "w">>,
        <<"g", "o", "l", "d">>,
        <<"m", "u", "s", "t", "a", "r", "d">>>>],
    [value |-> "orange", keywords |-> <<
        <<"o", "r", "a", "n", "g", "e">>,
        <<"c", "o", "r", "a", "l">>,
        <<"t", "e", "r", "r", "a", "c", "o", "t", "t", "a">>>>],
    [value |-> "pink", keywords |-> <<
        <<"p", "i", "n", "k">>,
        <<"r", "o", "s", "e">>,
        <<"b", "l", "u", "s", "h">>>>],
    [value |-> "purple", keywords |-> <<
        <<"p", "u", "r", "p", "l", "e">>,
        <<"l", "a", "v", "e", "n", "d", "e", "r">>,
        <<"p", "l", "u", "m">>,
        <<"v", "i", "o", "l", "e", "t">>>>]
  >>

MATERIAL_KEYWORDS ==
  <<
    [value |-> "wood", keywords |-> <<
        <<"w", "o", "o", "d">>,
        <<"w", "o", "o", "d", "e", "n">>,
        <<"o", "a", "k">>,
        <<"w", "a", "l", "n", "u", "t">>,
        <<"p", "i", "n", "e">>,
        <<"t", "e", "a", "k">>>>],
    [value |-> "metal", keywords |-> <<
        <<"m", "e", "t", "a", "l">>,
        <<"s", "t", "e", "e", "l">>,
        <<"b", "r", "a", "s", "s">>,
        <<"c", "o", "p", "p", "e", "r">>,
        <<"i", "r", "o", "n">>>>],
    [value |-> "glass", keywords |-> <<
        <<"g", "l", "a", "s", "s">>>>],
    [value |-> "fabric", keywords |-> <<
        <<"f", "a", "b", "r", "i", "c">>,
        <<"t", "e", "x", "t", "i", "l", "e">>,
        <<"u", "p", "h", "o", "l", "s", "t", "e", "r", "e", "d">>>>],
    [value |-> "leather", keywords |-> <<
        <<"l", "e", "a", "t", "h", "e", "r">>>>],
    [value |-> "stone", keywords |-> <<
        <<"s", "t", "o", "n", "e">>,
        <<"g", "r", "a", "n", "i", "t", "e">>,
        <<"m", "a", "r", "b", "l", "e">>>>],
    [value |-> "concrete", keywords |-> <<
        <<"c", "o", "n", "c", "r", "e", "t", "e">>>>],
    [value |-> "ceramic", keywords |-> <<
        <<"c", "e", "r", "a", "m", "i", "c">>,
        <<"t", "i", "l", "e">>,
        <<"p", "o", "r", "c", "e", "l", "a", "i", "n">>>>],
    [value |-> "carpet", keywords |-> <<
        <<"c", "a", "r", "p", "e", "t">>,
        <<"r", "u", "g">>>>],
    [value |-> "velvet", keywords |-> <<
        <<"v", "e", "l", "v", "e", "t">>>>],
    [value |-> "linen", keywords |-> <<
        <<"l", "i", "n", "e", "n">>>>],
    [value |-> "rattan", keywords |-> <<
        <<"r", "a", "t", "t", "a", "n">>,
        <<"w", "i", "c", "k", "e", "r">>>>]
  >>

\* ------------------------------------------------------------------------
\* Texts used as inputs.
\* ------------------------------------------------------------------------
\* "I love warm, cozy, modern spaces"
MsgLoveWarmModern ==
  <<"I", " ", "l", "o", "v", "e", " ", "w", "a", "r", "m", ",", " ", "c", "o", "z", "y", ",", " ", "m", "o", "d", "e", "r", "n", " ", "s", "p", "a", "c", "e", "s">>

\* "a modern living room"
DescModernLivingRoom ==
  <<"a", " ", "m", "o", "d", "e", "r", "n", " ", "l", "i", "v", "i", "n", "g", " ", "r", "o", "o", "m">>

\* "a warm modern room"
DescWarmModernRoom ==
  <<"a", " ", "w", "a", "r", "m", " ", "m", "o", "d", "e", "r", "n", " ", "r", "o", "o", "m">>

\* "I don't like this design"
DefaultRejectFeedback ==
  <<"I", " ", "d", "o", "n", "'", "t", " ", "l", "i", "k", "e", " ", "t", "h", "i", "s", " ", "d", "e", "s", "i", "g", "n">>

\* "hello"
MsgHello ==
  <<"h", "e", "l", "l", "o">>

\* fragments the texts given to the extractor are put together from: keywords
\* in capitals, inside longer words, shared by two dimensions, split over two
\* fragments, and words that are no keyword
\* "MODERN"
FragModernUpper == <<"M", "O", "D", "E", "R", "N">>
\* "cleaning"
FragCleaning == <<"c", "l", "e", "a", "n", "i", "n", "g">>
\* "metal"
FragMetal == <<"m", "e", "t", "a", "l">>
\* "tired"
FragTired == <<"t", "i", "r", "e", "d">>
\* "off-white"
FragOffWhite == <<"o", "f", "f", "-", "w", "h", "i", "t", "e">>
\* "Grey"
FragGrey == <<"G", "r", "e", "y">>
\* "cozy"
FragCozy == <<"c", "o", "z", "y">>
\* "hello"
FragHello == <<"h", "e", "l", "l", "o">>
\* " my "
FragMy == <<" ", "m", "y", " ">>
\* "re"
FragRe == <<"r", "e">>
\* "d"
FragD == <<"d">>

Fragments ==
  {<<>>, FragModernUpper, FragCleaning, FragMetal, FragTired, FragOffWhite,
   FragGrey, FragCozy, FragHello, FragMy, FragRe, FragD}

\* texts of one or two fragments
ExtractorTexts == {f \o g : f, g \in Fragments}


\* ------------------------------------------------------------------------
\* Bounds of the model.
\* ------------------------------------------------------------------------
\* the clock takes the values 0 .. MaxNow (whole weeks)
MaxNow == 3
\* rows the table user_preferences can hold
MaxRows == 3
\* operations in one run of each specification
UpdateSteps == 3
LearnSteps == 5
DecaySteps == 4
FaultySteps == 4
ContextSteps == 3
ExtractSteps == 1
SummarySteps == 4
HookFaultSteps == 3
RetrieveSteps == 4
\* design versions that can be created
MaxVersions == 1
\* background learning tasks that can be pending at once
MaxTasks == 1
\* documents the semantic index can hold
MaxDocs == 1
\* documents the index can hold in the retrieval runs
MaxIndexed == 2
ConcurrentSteps == 4
RankSteps == 1
LifecycleSteps == 4
InputSteps == 1
LostUpdateSteps == 6
SelectionSteps == 4
ThresholdSteps == 3

\* ------------------------------------------------------------------------
\* Inputs.
\* ------------------------------------------------------------------------
Users == {"u1", "u2"}

\* None / empty room id (both are falsy in `if room_id:`)
NoRoom == ""

\* the rooms table is fixed: room CRUD is outside the engine
Rooms == {"r1"}

RoomArgs == Rooms \cup {NoRoom}

MessageRole == {"user", "agent", "system"}

MessageTexts == {MsgLoveWarmModern, MsgHello}

DesignDescriptions == {DescModernLivingRoom}

\* descriptions of the versions that get selected: one and two keywords
SelectionDescriptions == {DescModernLivingRoom, DescWarmModernRoom}

FeedbackTexts == {DefaultRejectFeedback, MsgLoveWarmModern}

\* (type, value) pairs a direct call of update_preference_confidence is given
PrefKeys == {<<"style", "modern">>, <<"warmth", "warm">>}

\* (type, value) pairs of the summary runs: two values of one dimension and
\* one of another
SummaryKeys ==
  {<<"style", "modern">>, <<"style", "industrial">>, <<"warmth", "warm">>}

\* deltas of the summary runs: new records at 0.5, 0.6 and 0.1
SummaryDeltas == {200, 300, -200}

\* the user whose requests the hook and fault runs follow
Requester == "u1"

\* Server processes that share the store.  "request" is in the update call of
\* a message ingestion (store_conversation), "background" in the one of a
\* selection's learning task (_learn_preferences_background).
Workers == {"request", "background"}

\* the delta of the update call a process makes
worker_delta(w) == IF w = "request" THEN 100 ELSE 300

\* a process that is not inside an update call
NoCall == [pc |-> "idle"]

\* confidence deltas of a direct call: the four policy deltas and values of
\* other sizes, in thousandths
Deltas == {-2000, -260, 100, 300, 2000}

\* deltas that create the records the decay runs start from
\* (0.04, 0.1 and 0.4)
SeedDeltas == {-260, -200, 100}

\* weekly decay rates (0.95 is the default of apply_time_decay)
DecayRates == {[num |-> 19, den |-> 20], [num |-> 1, den |-> 2]}

\* similarities of a document to a query (1 - distance), in thousandths
Similarities == {800, 900}

\* outcome of the store calls of one update: "none" is no failure, "api" an
\* APIError of the store client, "other" any other exception (connection
\* error, validation error); the stage is the call it hits
Faults ==
  { [stage |-> "none", kind |-> "none"],
    [stage |-> "find", kind |-> "api"],
    [stage |-> "find", kind |-> "other"],
    [stage |-> "write", kind |-> "api"],
    [stage |-> "write", kind |-> "other"] }

NoFault == [stage |-> "none", kind |-> "none"]

\* ------------------------------------------------------------------------
\* Program constants, in thousandths.
\* ------------------------------------------------------------------------
BASE_CONFIDENCE == 300
DECAY_FLOOR == 50
PREFERENCE_CONFIDENCE_THRESHOLD == 500
SIMILARITY_TOP_K == 5
DETECTED_CONFIDENCE == 100
WARM_COZY_CONFIDENCE == 150

Min(a, b) == IF a < b THEN a ELSE b
Max(a, b) == IF a > b THEN a ELSE b

RECURSIVE Pow(_, _)
Pow(b, e) == IF e = 0 THEN 1 ELSE b * Pow(b, e - 1)

\* ------------------------------------------------------------------------
\* Keyword extractor (learner.py, extract_preferences_from_text).
\* ------------------------------------------------------------------------
UpperCase ==
  <<"A", "B", "C", "D", "E", "F", "G", "H", "I", "J", "K", "L", "M",
    "N", "O", "P", "Q", "R", "S", "T", "U", "V", "W", "X", "Y", "Z">>
LowerCase ==
  <<"a", "b", "c", "d", "e", "f", "g", "h", "i", "j", "k", "l", "m",
    "n", "o", "p", "q", "r", "s", "t", "u", "v", "w", "x", "y", "z">>

\* str.lower() on one character
lower_char(c) ==
  IF \E i \in 1..26 : UpperCase[i] = c
  THEN LowerCase[CHOOSE i \in 1..26 : UpperCase[i] = c]
  ELSE c

\* text.lower()
lower(text) == [i \in 1..Len(text) |-> lower_char(text[i])]

\* Python's  keyword in text  on strings: substring search
contains(text, keyword) ==
  \E i \in 1..(Len(text) - Len(keyword) + 1) :
    SubSeq(text, i, i + Len(keyword) - 1) = keyword

\* the first keyword of the list alone
any_keyword_first_only(text_lower, keywords) ==
  contains(text_lower, keywords[1])

\* any(keyword in text_lower for keyword in keywords)
any_keyword(text_lower, keywords) ==
  \E k \in 1..Len(keywords) : contains(text_lower, keywords[k])

\* one loop of the extractor: a candidate for every value of the table with a
\* keyword hit, in the order of the table
extract_dimension(keyword_table, preference_type, text_lower, confidence) ==
  LET hit(entry) == any_keyword(text_lower, entry.keywords)
      hits == SelectSeq(keyword_table, hit)
  IN  [i \in 1..Len(hits) |->
         [preference_type |-> preference_type,
          preference_value |-> hits[i].value,
          confidence |-> confidence]]

\* the five loops: (type, value, confidence) of every candidate, in order
keyword_hits(text) ==
  LET text_lower == lower(text)
      warmth_confidence ==
        IF contains(text_lower, <<"w", "a", "r", "m">>)
           \/ contains(text_lower, <<"c", "o", "z", "y">>)
        THEN WARM_COZY_CONFIDENCE ELSE DETECTED_CONFIDENCE
  IN  extract_dimension(STYLE_KEYWORDS, "style", text_lower, DETECTED_CONFIDENCE)
      \o extract_dimension(WARMTH_KEYWORDS, "warmth", text_lower, warmth_confidence)
      \o extract_dimension(COMPLEXITY_KEYWORDS, "complexity", text_lower, DETECTED_CONFIDENCE)
      \o extract_dimension(COLOR_KEYWORDS, "color", text_lower, DETECTED_CONFIDENCE)
      \o extract_dimension(MATERIAL_KEYWORDS, "material", text_lower, DETECTED_CONFIDENCE)

\* the texts the operations are given: messages, descriptions, feedback, and
\* the text  description + " " + feedback  of a rejection
InputTexts ==
  MessageTexts \cup DesignDescriptions \cup FeedbackTexts \cup SelectionDescriptions
  \cup {d \o <<" ">> \o f : d \in DesignDescriptions, f \in FeedbackTexts}

\* keyword_hits of every input text, evaluated once
KeywordHits == [text \in InputTexts |-> keyword_hits(text)]

extract_preferences_from_text(text, user_id, source_room_id) ==
  LET hits == IF text \in InputTexts THEN KeywordHits[text] ELSE keyword_hits(text)
  IN  [i \in 1..Len(hits) |->
         [user_id |-> user_id,
          preference_type |-> hits[i].preference_type,
          preference_value |-> hits[i].preference_value,
          confidence |-> hits[i].confidence,
          source_room_id |-> source_room_id]]

\* ------------------------------------------------------------------------
\* Preference store (storage.py): the table user_preferences is a sequence
\* of rows; the id of a row is its position.  A row is never deleted.  The
\* table has no uniqueness constraint of its own: one record per
\* (user_id, type, value) is kept by lookup-then-update only.
\* ------------------------------------------------------------------------
UserPreference(user_id, preference_type, preference_value, confidence, source_room_id, t) ==
  [user_id |-> user_id,
   preference_type |-> preference_type,
   preference_value |-> preference_value,
   confidence |-> confidence,
   source_room_id |-> source_room_id,
   updated_at |-> t]

\* the rows selected by the three .eq() filters of find_preference
matching_rows(tbl, user_id, preference_type, preference_value) ==
  {i \in 1..Len(tbl) :
     /\ tbl[i].user_id = user_id
     /\ tbl[i].preference_type = preference_type
     /\ tbl[i].preference_value = preference_value}

\* find_preference: id of a matching row, 0 for None.  The query is
\* .limit(1) without an order, so with several matching rows the store may
\* return any of them: row `sel` if it matches, else the first.  An APIError
\* is caught and None is returned; any other exception propagates.
find_preference(tbl, user_id, preference_type, preference_value, fault, sel) ==
  LET rows == matching_rows(tbl, user_id, preference_type, preference_value)
  IN  IF fault.stage = "find"
      THEN [raised |-> fault.kind = "other", id |-> 0]
      ELSE IF rows = {} THEN [raised |-> FALSE, id |-> 0]
      ELSE IF sel \in rows THEN [raised |-> FALSE, id |-> sel]
      ELSE [raised |-> FALSE, id |-> CHOOSE i \in rows : \A j \in rows : i <= j]

\* create_preference: insert; an APIError is printed and re-raised, any other
\* exception propagates
create_preference(tbl, preference, fault) ==
  IF fault.stage = "write"
  THEN [raised |-> TRUE, table |-> tbl]
  ELSE [raised |-> FALSE, table |-> Append(tbl, preference)]

\* a write that leaves updated_at as it was
update_stamp_keep(preference, t) == preference

\* the timestamp update_preference writes: preference.updated_at = utcnow()
update_stamp(preference, t) == [preference EXCEPT !.updated_at = t]

\* update_preference: stamps updated_at and writes the row with this id; an
\* APIError is printed and the unsaved object returned, any other exception
\* propagates
update_preference(tbl, id, preference, fault, t) ==
  IF fault.stage = "write"
  THEN [raised |-> fault.kind = "other", table |-> tbl]
  ELSE [raised |-> FALSE, table |-> [tbl EXCEPT ![id] = update_stamp(preference, t)]]

\* get_user_preferences: ids of the user's rows with confidence >= threshold
\* (the order by confidence DESC is applied where the result is walked)
get_user_preferences(tbl, user_id, confidence_threshold) ==
  {i \in 1..Len(tbl) :
     tbl[i].user_id = user_id /\ tbl[i].confidence >= confidence_threshold}

\* ------------------------------------------------------------------------
\* Confidence updater (learner.py, update_preference_confidence).
\* ------------------------------------------------------------------------
\* the same without the upper limit
clamp_existing_no_upper(confidence, confidence_delta) ==
  Max(0, confidence + confidence_delta)

\* min(1.0, max(0.0, existing.confidence + confidence_delta))
clamp_existing(confidence, confidence_delta) ==
  Min(1000, Max(0, confidence + confidence_delta))

\* the same from a base of 0.0
clamp_new_from_zero(confidence_delta) ==
  Max(0, Min(1000, confidence_delta))

\* max(0.0, min(1.0, 0.3 + confidence_delta))
clamp_new(confidence_delta) ==
  Max(0, Min(1000, BASE_CONFIDENCE + confidence_delta))

\* One call.  Result: the table afterwards, whether the call raised, the id
\* of the row found (0: none was found), and the confidence of the record
\* the call returns.
update_preference_confidence(tbl, user_id, preference_type, preference_value, confidence_delta, source_room_id, fault, sel, t) ==
  LET existing == find_preference(tbl, user_id, preference_type, preference_value, fault, sel)
  IN  IF existing.raised
      THEN [table |-> tbl, raised |-> TRUE, found |-> 0, confidence |-> 0]
      ELSE IF existing.id # 0
      THEN LET new_confidence == clamp_existing(tbl[existing.id].confidence, confidence_delta)
               changed == [tbl[existing.id] EXCEPT
                             !.confidence = new_confidence,
                             !.updated_at = t,
                             !.source_room_id =
                               IF source_room_id # NoRoom THEN source_room_id ELSE @]
               written == update_preference(tbl, existing.id, changed, fault, t)
           IN  [table |-> written.table, raised |-> written.raised,
                found |-> existing.id, confidence |-> new_confidence]
      ELSE LET new_preference ==
                 UserPreference(user_id, preference_type, preference_value,
                                clamp_new(confidence_delta), source_room_id, t)
               written == create_preference(tbl, new_preference, fault)
           IN  [table |-> written.table, raised |-> written.raised,
                found |-> 0, confidence |-> new_preference.confidence]

\* The two halves of one call when other processes use the store in between.
\* First half: the statement  existing = storage.find_preference(...).  The
\* caller keeps what the store answered: the id and a copy of the row.
lookup_preference(tbl, user_id, preference_type, preference_value, sel) ==
  LET existing == find_preference(tbl, user_id, preference_type, preference_value,
                                  NoFault, sel)
  IN  [id |-> existing.id,
       row |-> IF existing.id # 0 THEN <<tbl[existing.id]>> ELSE <<>>]

\* a second half that reads the row again and changes what it finds then
write_preference_rereading(tbl, existing, user_id, preference_type, preference_value, confidence_delta, source_room_id, t) ==
  IF existing.id # 0
  THEN LET read == tbl[existing.id]
           changed == [read EXCEPT
                         !.confidence = clamp_existing(read.confidence, confidence_delta),
                         !.updated_at = t,
                         !.source_room_id =
                           IF source_room_id # NoRoom THEN source_room_id ELSE @]
       IN  update_preference(tbl, existing.id, changed, NoFault, t).table
  ELSE create_preference(tbl,
                         UserPreference(user_id, preference_type, preference_value,
                                        clamp_new(confidence_delta), source_room_id, t),
                         NoFault).table

\* Second half: the branch on `existing` as it was read, on the table as it
\* is now.  The update writes the copy read earlier with the new confidence
\* (update ... .eq('id', id)); the create inserts a row.
write_preference(tbl, existing, user_id, preference_type, preference_value, confidence_delta, source_room_id, t) ==
  IF existing.id # 0
  THEN LET read == existing.row[1]
           changed == [read EXCEPT
                         !.confidence = clamp_existing(read.confidence, confidence_delta),
                         !.updated_at = t,
                         !.source_room_id =
                           IF source_room_id # NoRoom THEN source_room_id ELSE @]
       IN  update_preference(tbl, existing.id, changed, NoFault, t).table
  ELSE create_preference(tbl,
                         UserPreference(user_id, preference_type, preference_value,
                                        clamp_new(confidence_delta), source_room_id, t),
                         NoFault).table

\* The loop  for pref in preferences: update_preference_confidence(...)  of a
\* learning hook.  calls[k] is the k-th call (type, value, delta); the store
\* fault `env.fault` hits call number env.failAt (0: no call).  An exception
\* leaves the loop.  log: one entry per call made.
RECURSIVE run_updates(_, _, _, _)
run_updates(tbl, calls, k, env) ==
  IF k > Len(calls)
  THEN [table |-> tbl, raised |-> FALSE, log |-> <<>>]
  ELSE LET fault == IF k = env.failAt THEN env.fault ELSE NoFault
           r == update_preference_confidence(
                  tbl, env.user_id, calls[k].preference_type,
                  calls[k].preference_value, calls[k].confidence_delta,
                  env.source_room_id, fault, env.sel, env.now)
           entry == [preference_type |-> calls[k].preference_type,
                     preference_value |-> calls[k].preference_value,
                     confidence_delta |-> calls[k].confidence_delta,
                     found |-> r.found,
                     raised |-> r.raised]
       IN  IF r.raised
           THEN [table |-> r.table, raised |-> TRUE, log |-> <<entry>>]
           ELSE LET rest == run_updates(r.table, calls, k + 1, env)
                IN  [table |-> rest.table, raised |-> rest.raised,
                     log |-> <<entry>> \o rest.log]

\* ------------------------------------------------------------------------
\* Decay (learner.py, apply_time_decay).
\* ------------------------------------------------------------------------
\* pref.confidence * (decay_rate ** weeks) without the floor
decayed_confidence_no_floor(confidence, decay_rate, weeks) ==
  (confidence * Pow(decay_rate.num, weeks)) \div Pow(decay_rate.den, weeks)

\* pref.confidence * (decay_rate ** weeks), snapped to 0.0 under the floor
decayed_confidence(confidence, decay_rate, weeks) ==
  LET n == confidence * Pow(decay_rate.num, weeks)
      d == Pow(decay_rate.den, weeks)
  IN  IF n < DECAY_FLOOR * d THEN 0 ELSE n \div d

\* the rate applied once, however many weeks have passed
decay_record_one_week(pref, decay_rate, current_time) ==
  LET weeks == current_time - pref.updated_at
  IN  IF weeks > 0
      THEN [pref EXCEPT !.confidence = decayed_confidence(pref.confidence, decay_rate, 1)]
      ELSE pref

\* the body of the loop for one record: nothing unless weeks > 0
decay_record(pref, decay_rate, current_time) ==
  LET weeks == current_time - pref.updated_at
  IN  IF weeks > 0
      THEN [pref EXCEPT !.confidence = decayed_confidence(pref.confidence, decay_rate, weeks)]
      ELSE pref

\* a pass that removes the records it brought to 0.0 from the table
apply_time_decay_removing(tbl, user_id, decay_rate, current_time, list_fault, fail_at, fail_kind, before) ==
  LET preferences == IF list_fault = "none"
                     THEN get_user_preferences(tbl, user_id, 0)
                     ELSE {}
      aborted == fail_at # 0 /\ fail_kind = "other"
      visited == IF aborted THEN before \cup {fail_at} ELSE preferences
      written == {i \in visited :
                    /\ current_time - tbl[i].updated_at > 0
                    /\ i # fail_at}
      decayed == [i \in 1..Len(tbl) |->
                    IF i \in written
                    THEN update_stamp(decay_record(tbl[i], decay_rate, current_time), current_time)
                    ELSE tbl[i]]
      kept(pref) == pref.confidence > 0
  IN  [table |-> SelectSeq(decayed, kept),
       raised |-> list_fault = "other" \/ aborted,
       visited |-> visited,
       written |-> written]

\* The whole pass.  list_fault is the outcome of get_user_preferences ("api":
\* caught, the list is empty; "other": propagates).  The write of record
\* fail_at (0: none) fails with fail_kind.  The list is walked by confidence
\* DESC; `before` is the set of records that come before fail_at in it.
\* Result: table, raised, visited (ids the loop reached), written (ids saved).
apply_time_decay(tbl, user_id, decay_rate, current_time, list_fault, fail_at, fail_kind, before) ==
  LET preferences == IF list_fault = "none"
                     THEN get_user_preferences(tbl, user_id, 0)
                     ELSE {}
      aborted == fail_at # 0 /\ fail_kind = "other"
      visited == IF aborted THEN before \cup {fail_at} ELSE preferences
      written == {i \in visited :
                    /\ current_time - tbl[i].updated_at > 0
                    /\ i # fail_at}
  IN  [table |-> [i \in 1..Len(tbl) |->
                    IF i \in written
                    THEN update_stamp(decay_record(tbl[i], decay_rate, current_time), current_time)
                    ELSE tbl[i]],
       raised |-> list_fault = "other" \/ aborted,
       visited |-> visited,
       written |-> written]

\* ------------------------------------------------------------------------
\* Learning hooks.
\* ------------------------------------------------------------------------
\* the candidate's own base weight (0.1 / 0.15) taken for the delta
implicit_mention_base_weight(pref) == pref.confidence

\* confidence_delta=0.1 of store_conversation ("Implicit mention")
implicit_mention_delta(pref) == 100

\* the selection signal weighted like an implicit mention
selection_delta_weak(pref) == pref.confidence

\* confidence_delta=0.3 of learn_from_selection ("Strong positive signal")
selection_delta(pref) == 300

\* confidence_delta = 0.2 if is_positive else -0.2 of learn_from_feedback
feedback_delta(pref, is_positive) == IF is_positive THEN 200 ELSE -200

update_call(pref, confidence_delta) ==
  [preference_type |-> pref.preference_type,
   preference_value |-> pref.preference_value,
   confidence_delta |-> confidence_delta]

\* the try block of store_conversation for a user message; the fault stage
\* "extract" stands for an exception raised by the extraction call itself
learn_from_message(tbl, user_id, message, room_id, env) ==
  LET preferences == extract_preferences_from_text(message, user_id, room_id)
      calls == [i \in 1..Len(preferences) |->
                  update_call(preferences[i], implicit_mention_delta(preferences[i]))]
  IN  IF env.fault.stage = "extract"
      THEN [table |-> tbl, raised |-> TRUE, log |-> <<>>]
      ELSE run_updates(tbl, calls, 1, env)

learn_from_selection(tbl, user_id, selected_description, room_id, env) ==
  LET preferences == extract_preferences_from_text(selected_description, user_id, room_id)
      calls == [i \in 1..Len(preferences) |->
                  update_call(preferences[i], selection_delta(preferences[i]))]
  IN  run_updates(tbl, calls, 1, env)

learn_from_feedback(tbl, user_id, feedback_text, is_positive, room_id, env) ==
  LET preferences == extract_preferences_from_text(feedback_text, user_id, room_id)
      calls == [i \in 1..Len(preferences) |->
                  update_call(preferences[i], feedback_delta(preferences[i], is_positive))]
  IN  run_updates(tbl, calls, 1, env)

\* ------------------------------------------------------------------------
\* State.
\* ------------------------------------------------------------------------
VARIABLES
  table,      \* the table user_preferences
  now,        \* datetime.utcnow(), in whole weeks
  versions,   \* the table design_versions (id = position)
  tasks,      \* background learning tasks created and not yet run
  index,      \* the documents of the semantic index (ChromaDB collection)
  calls,      \* per server process: the update call it is in the middle of
  steps,      \* operations performed so far
  last        \* the operation performed last: its arguments and its outcome

vars == <<table, now, versions, tasks, index, calls, steps, last>>

Init ==
  /\ table = <<>>
  /\ now = 0
  /\ versions = <<>>
  /\ tasks = <<>>
  /\ index = <<>>
  /\ calls = [w \in Workers |-> NoCall]
  /\ steps = 0
  /\ last = [op |-> "init"]

\* ids find_preference can be steered to: a row that has an older row with
\* the same (user_id, type, value); 0 steers to the first matching row
sel_choices(tbl) ==
  {0} \cup {i \in 1..Len(tbl) :
              \E j \in 1..(i - 1) :
                /\ tbl[j].user_id = tbl[i].user_id
                /\ tbl[j].preference_type = tbl[i].preference_type
                /\ tbl[j].preference_value = tbl[i].preference_value}

\* the store fault of a loop of n calls: none, or one fault at one call
fault_choices(n) ==
  {[fail_at |-> 0, fault |-> NoFault]}
  \cup {[fail_at |-> k, fault |-> f] : k \in 1..n, f \in Faults \ {NoFault}}

\* the faults of the learning block of store_conversation: those of its
\* update calls, or an exception of the extraction
message_fault_choices(n) ==
  fault_choices(n)
  \cup {[fail_at |-> 0, fault |-> [stage |-> "extract", kind |-> "other"]]}

\* except Exception  around the learning block of store_conversation: the
\* exception is printed and does not leave the method
raised_by_store_conversation_unguarded(learning_raised) == learning_raised

raised_by_store_conversation(learning_raised) == FALSE

\* a background learning task runs once, failed or not: nothing creates it
\* again
tasks_after_attempt_retried(pending, failed) ==
  IF failed THEN pending ELSE Tail(pending)

tasks_after_attempt(pending, failed) == Tail(pending)

loop_env(user_id, room_id, fc, sel) ==
  [user_id |-> user_id, source_room_id |-> room_id,
   failAt |-> fc.fail_at, fault |-> fc.fault, sel |-> sel, now |-> now]

\* the clock advances by one week
tick ==
  /\ now < MaxNow
  /\ now' = now + 1
  /\ steps' = steps + 1
  /\ last' = [op |-> "tick"]
  /\ UNCHANGED <<table, versions, tasks, index, calls>>

\* a direct call of PreferenceLearner.update_preference_confidence
update_confidence(user_id, key, confidence_delta, source_room_id, fault, sel) ==
  LET r == update_preference_confidence(table, user_id, key[1], key[2],
                                        confidence_delta, source_room_id, fault, sel, now)
  IN  /\ Len(r.table) <= MaxRows
      /\ table' = r.table
      /\ steps' = steps + 1
      /\ last' = [op |-> "update_preference_confidence",
                  user_id |-> user_id,
                  preference_type |-> key[1],
                  preference_value |-> key[2],
                  confidence_delta |-> confidence_delta,
                  fault |-> fault,
                  found |-> r.found,
                  raised |-> r.raised,
                  confidence |-> r.confidence]
      /\ UNCHANGED <<now, versions, tasks, index, calls>>

\* process w enters update_preference_confidence and performs the lookup
begin_update(w, user_id, key, sel) ==
  /\ calls[w] = NoCall
  /\ calls' = [calls EXCEPT ![w] =
                 [pc |-> "looked_up",
                  user_id |-> user_id,
                  preference_type |-> key[1],
                  preference_value |-> key[2],
                  existing |-> lookup_preference(table, user_id, key[1], key[2], sel)]]
  /\ steps' = steps + 1
  /\ last' = [op |-> "begin_update", worker |-> w, user_id |-> user_id,
              preference_type |-> key[1], preference_value |-> key[2]]
  /\ UNCHANGED <<table, now, versions, tasks, index>>

\* process w performs the update or the create its lookup decided on, and
\* leaves the call
finish_update(w) ==
  /\ calls[w].pc = "looked_up"
  /\ LET c == calls[w]
         tbl == write_preference(table, c.existing, c.user_id, c.preference_type,
                                 c.preference_value, worker_delta(w), NoRoom, now)
     IN  /\ Len(tbl) <= MaxRows
         /\ table' = tbl
         /\ last' = [op |-> "finish_update", worker |-> w, user_id |-> c.user_id,
                     preference_type |-> c.preference_type,
                     preference_value |-> c.preference_value,
                     confidence_delta |-> worker_delta(w),
                     found |-> c.existing.id,
                     read |-> c.existing.row,
                     stored |-> IF c.existing.id # 0
                                THEN <<table[c.existing.id]>> ELSE <<>>]
  /\ calls' = [calls EXCEPT ![w] = NoCall]
  /\ steps' = steps + 1
  /\ UNCHANGED <<now, versions, tasks, index>>

\* process w enters apply_time_decay: it reads the user's records and the
\* clock (learner.py:185-186)
begin_decay(w, user_id, decay_rate) ==
  /\ calls[w] = NoCall
  /\ calls' = [calls EXCEPT ![w] =
                 [pc |-> "listed",
                  user_id |-> user_id,
                  decay_rate |-> decay_rate,
                  current_time |-> now,
                  preferences |-> [i \in get_user_preferences(table, user_id, 0) |->
                                     table[i]]]]
  /\ steps' = steps + 1
  /\ last' = [op |-> "begin_decay", worker |-> w, user_id |-> user_id]
  /\ UNCHANGED <<table, now, versions, tasks, index>>

\* process w walks the records it read and writes the decayed copy of each
\* one with weeks > 0, and leaves the pass
finish_decay(w) ==
  /\ calls[w].pc = "listed"
  /\ LET c == calls[w]
         written == {i \in DOMAIN c.preferences :
                       c.current_time - c.preferences[i].updated_at > 0}
     IN  /\ table' = [i \in 1..Len(table) |->
                        IF i \in written
                        THEN update_stamp(decay_record(c.preferences[i], c.decay_rate,
                                                       c.current_time), now)
                        ELSE table[i]]
         /\ last' = [op |-> "finish_decay", worker |-> w, user_id |-> c.user_id,
                     decay_rate |-> c.decay_rate,
                     current_time |-> c.current_time,
                     written |-> written,
                     read |-> c.preferences,
                     stored |-> [i \in written |-> table[i]]]
  /\ calls' = [calls EXCEPT ![w] = NoCall]
  /\ steps' = steps + 1
  /\ UNCHANGED <<now, versions, tasks, index>>

\* learning from every message, whoever wrote it
learns_from_role_any(role) == TRUE

\* if role == MessageRole.USER: only user messages feed the learner
learns_from_role(role) == role = "user"

\* MemoryManager.store_conversation: chroma.add (a failure is caught), then,
\* for a user message, extraction and one update per candidate inside
\* try/except Exception; the message record is returned in every case
store_conversation(user_id, message, role, room_id, embed_ok, fc, sel) ==
  LET learn == learns_from_role(role)
      r == learn_from_message(table, user_id, message, room_id,
                              loop_env(user_id, room_id, fc, sel))
      doc == [text |-> message, user_id |-> user_id, role |-> role,
              room_id |-> room_id, timestamp |-> now]
  IN  /\ learn => Len(r.table) <= MaxRows
      /\ ~learn => fc.fail_at = 0 /\ sel = 0
      /\ index' = IF embed_ok THEN Append(index, doc) ELSE index
      /\ table' = IF learn THEN r.table ELSE table
      /\ steps' = steps + 1
      /\ last' = [op |-> "store_conversation",
                  user_id |-> user_id,
                  message |-> message,
                  role |-> role,
                  room_id |-> room_id,
                  fault |-> fc.fault,
                  log |-> IF learn THEN r.log ELSE <<>>,
                  learning_failed |-> learn /\ r.raised,
                  returned |-> ~raised_by_store_conversation(learn /\ r.raised)]
      /\ UNCHANGED <<now, versions, tasks, calls>>

\* DesignAgent._generate_design_version: a new version of a room is stored
\* (its images are outside the engine)
create_design_version(room_id, design_description) ==
  /\ Len(versions) < MaxVersions
  /\ versions' = Append(versions,
                        [room_id |-> room_id,
                         description |-> design_description,
                         selected |-> FALSE,
                         rejected |-> FALSE])
  /\ steps' = steps + 1
  /\ last' = [op |-> "create_design_version"]
  /\ UNCHANGED <<table, now, tasks, index, calls>>

\* storage.get_design_version: 0 stands for None
get_design_version(version_id) ==
  IF version_id \in 1..Len(versions) THEN version_id ELSE 0

\* DesignAgent.select_design behind the route select_design: the version is
\* marked selected and the learning task is created, not awaited.  image is
\* "none" (no image_id), "valid" (an image of the version) or "unknown".
select_design(user_id, design_version_id, image) ==
  LET version == get_design_version(design_version_id)
  IN  /\ IF version = 0
         THEN UNCHANGED <<versions, tasks>>
         ELSE /\ Len(tasks) < MaxTasks
              /\ versions' = [versions EXCEPT ![version].selected = TRUE]
              /\ tasks' = Append(tasks,
                                 [user_id |-> user_id,
                                  description |-> versions[version].description,
                                  room_id |-> versions[version].room_id,
                                  image_url |-> image = "valid"])
      /\ steps' = steps + 1
      /\ last' = [op |-> "select_design",
                  user_id |-> user_id,
                  version |-> version,
                  status |-> 200]
      /\ UNCHANGED <<table, now, index, calls>>

\* a task that starts with the image analysis, so that with an image url
\* the exception comes before the text learning
table_after_background_image_first(before, after_text_learning, image_url) ==
  IF image_url THEN before ELSE after_text_learning

\* The store after the task: learn_from_design_selection has returned before
\* the image branch is entered (design_agent.py:492-497), so what it wrote
\* stays, whatever the image branch does.
table_after_background(before, after_text_learning, image_url) ==
  after_text_learning

\* DesignAgent._learn_preferences_background: the oldest pending task runs.
\* Text learning first; with an image url the call of
\* memory.learn_from_selected_image follows, a method MemoryManager does not
\* have, so it raises.  Every exception is caught and printed.
learn_preferences_background(fc, sel) ==
  /\ tasks # <<>>
  /\ LET task == Head(tasks)
         r == learn_from_selection(table, task.user_id, task.description, task.room_id,
                                   loop_env(task.user_id, task.room_id, fc, sel))
     IN  /\ Len(r.table) <= MaxRows
         /\ table' = table_after_background(table, r.table, task.image_url)
         /\ last' = [op |-> "learn_preferences_background",
                     user_id |-> task.user_id,
                     description |-> task.description,
                     image_url |-> task.image_url,
                     fault |-> fc.fault,
                     log |-> r.log,
                     learning_failed |-> r.raised \/ task.image_url]
         /\ tasks' = tasks_after_attempt(tasks, r.raised \/ task.image_url)
  /\ steps' = steps + 1
  /\ UNCHANGED <<now, versions, index, calls>>

\* route reject_design: the HTTPException(404) is raised inside the try block
\* whose  except Exception  turns every exception into a 500
reject_design(room_id, version_id, user_id, feedback, fc, sel) ==
  LET version == get_design_version(version_id)
      text == IF version = 0 THEN feedback
              ELSE versions[version].description \o <<" ">> \o feedback
      r == learn_from_feedback(table, user_id, text, FALSE, room_id,
                               loop_env(user_id, room_id, fc, sel))
  IN  /\ IF version = 0
         THEN /\ fc.fail_at = 0 /\ sel = 0
              /\ UNCHANGED <<table, versions>>
              /\ last' = [op |-> "reject_design", user_id |-> user_id,
                          version |-> 0, feedback_text |-> text,
                          fault |-> fc.fault, log |-> <<>>, status |-> 500]
         ELSE /\ Len(r.table) <= MaxRows
              /\ versions' = [versions EXCEPT ![version].rejected = TRUE]
              /\ table' = r.table
              /\ last' = [op |-> "reject_design", user_id |-> user_id,
                          version |-> version, feedback_text |-> text,
                          fault |-> fc.fault, log |-> r.log,
                          status |-> IF r.raised THEN 500 ELSE 200]
      /\ steps' = steps + 1
      /\ UNCHANGED <<now, tasks, index, calls>>

\* route submit_feedback
submit_feedback(user_id, feedback_text, is_positive, room_id, fc, sel) ==
  LET r == learn_from_feedback(table, user_id, feedback_text, is_positive, room_id,
                               loop_env(user_id, room_id, fc, sel))
  IN  /\ Len(r.table) <= MaxRows
      /\ table' = r.table
      /\ steps' = steps + 1
      /\ last' = [op |-> "submit_feedback", user_id |-> user_id,
                  feedback_text |-> feedback_text, is_positive |-> is_positive,
                  fault |-> fc.fault, log |-> r.log,
                  status |-> IF r.raised THEN 500 ELSE 200]
      /\ UNCHANGED <<now, versions, tasks, index, calls>>

\* a direct call of PreferenceLearner.extract_preferences_from_text
extract(text) ==
  /\ steps' = steps + 1
  /\ last' = [op |-> "extract_preferences_from_text",
              text |-> text,
              preferences |-> extract_preferences_from_text(text, Requester, NoRoom)]
  /\ UNCHANGED <<table, now, versions, tasks, index, calls>>

\* What a caller can hand over as text: a str, or a value that is none
\* (None, a number, bytes, a list).
Input(is_text, text) == [is_text |-> is_text, text |-> text]

NonTextInput == Input(FALSE, <<>>)

\* extract_preferences_from_text on any input.  The first statement is
\* text.lower(): on a value that is no str it raises (AttributeError, or for
\* bytes TypeError at the first  keyword in text_lower), and the method has
\* no handler.  On a str no statement of the method can raise.
extract_preferences_from_input(input, user_id, source_room_id) ==
  IF input.is_text
  THEN [raised |-> FALSE,
        preferences |-> extract_preferences_from_text(input.text, user_id, source_room_id)]
  ELSE [raised |-> TRUE, preferences |-> <<>>]

\* learn_from_feedback on any input: the extraction is its first statement,
\* outside any try block
learn_from_feedback_input(tbl, user_id, input, is_positive, room_id, env) ==
  IF extract_preferences_from_input(input, user_id, room_id).raised
  THEN [table |-> tbl, raised |-> TRUE, log |-> <<>>]
  ELSE learn_from_feedback(tbl, user_id, input.text, is_positive, room_id, env)

\* a direct call of extract_preferences_from_text with any input
extract_input(input) ==
  LET r == extract_preferences_from_input(input, Requester, NoRoom)
  IN  /\ steps' = steps + 1
      /\ last' = [op |-> "extract_preferences_from_input",
                  input |-> input,
                  raised |-> r.raised,
                  preferences |-> r.preferences]
      /\ UNCHANGED <<table, now, versions, tasks, index, calls>>

\* a direct call of PreferenceLearner.learn_from_feedback with any input
feedback_input(user_id, input, is_positive) ==
  LET r == learn_from_feedback_input(table, user_id, input, is_positive, NoRoom,
                                     loop_env(user_id, NoRoom, [fail_at |-> 0, fault |-> NoFault], 0))
  IN  /\ Len(r.table) <= MaxRows
      /\ table' = r.table
      /\ steps' = steps + 1
      /\ last' = [op |-> "learn_from_feedback_input",
                  input |-> input,
                  raised |-> r.raised,
                  log |-> r.log]
      /\ UNCHANGED <<now, versions, tasks, index, calls>>

\* confidence_threshold = None: the argument was not passed
NoThreshold == -1

\* MemoryManager.get_user_preferences:
\*   threshold = confidence_threshold or config.PREFERENCE_CONFIDENCE_THRESHOLD
\* `or` takes the default for every falsy argument: None and also 0.0.
MemoryManager_get_user_preferences(tbl, user_id, confidence_threshold) ==
  LET threshold == IF confidence_threshold = NoThreshold \/ confidence_threshold = 0
                   THEN PREFERENCE_CONFIDENCE_THRESHOLD
                   ELSE confidence_threshold
  IN  get_user_preferences(tbl, user_id, threshold)

\* a call of MemoryManager.get_user_preferences; returned: the ids of the
\* records in the answer
manager_get_user_preferences(user_id, confidence_threshold) ==
  /\ steps' = steps + 1
  /\ last' = [op |-> "MemoryManager.get_user_preferences",
              user_id |-> user_id,
              confidence_threshold |-> confidence_threshold,
              returned |-> MemoryManager_get_user_preferences(table, user_id,
                                                              confidence_threshold)]
  /\ UNCHANGED <<table, now, versions, tasks, index, calls>>

\* the records that can come before record i when the user's records are
\* walked by confidence DESC: all with a higher confidence, any with the same
before_choices(tbl, user_id, i) ==
  LET higher == {j \in get_user_preferences(tbl, user_id, 0) :
                   tbl[j].confidence > tbl[i].confidence}
      same == {j \in get_user_preferences(tbl, user_id, 0) \ {i} :
                 tbl[j].confidence = tbl[i].confidence}
  IN  {higher \cup s : s \in SUBSET same}

\* a decay pass of one user
decay(user_id, decay_rate, list_fault, fail_at, fail_kind, before) ==
  LET r == apply_time_decay(table, user_id, decay_rate, now,
                            list_fault, fail_at, fail_kind, before)
  IN  /\ table' = r.table
      /\ steps' = steps + 1
      /\ last' = [op |-> "apply_time_decay",
                  user_id |-> user_id,
                  decay_rate |-> decay_rate,
                  list_fault |-> list_fault,
                  fail_at |-> fail_at,
                  fail_kind |-> fail_kind,
                  raised |-> r.raised,
                  visited |-> r.visited,
                  written |-> r.written,
                  prior |-> [i \in r.visited |-> table[i]],
                  repeated |-> /\ last.op = "apply_time_decay"
                               /\ last.user_id = user_id
                               /\ last.list_fault = "none"
                               /\ last.fail_at = 0]
      /\ UNCHANGED <<now, versions, tasks, index, calls>>

\* ------------------------------------------------------------------------
\* Retrieval and context formatting (manager.py).
\* ------------------------------------------------------------------------
\* a room id no row of the rooms table has
UnknownRoom == "r9"

first_n(seq, n) == SubSeq(seq, 1, Min(n, Len(seq)))

\* the permutations of a finite set, as sequences
RECURSIVE permutations(_)
permutations(S) ==
  IF S = {} THEN {<<>>}
  ELSE UNION {{<<x>> \o p : p \in permutations(S \ {x})} : x \in S}

\* The answers the semantic index can give to a query: every document with
\* its metadata and its similarity to the query, most similar first; the
\* order of equally similar documents is the index's choice.
query_rankings(idx) ==
  LET node(i, sims) == [doc |-> i,
                        metadata |-> [user_id |-> idx[i].user_id,
                                      room_id |-> idx[i].room_id,
                                      role |-> idx[i].role,
                                      timestamp |-> idx[i].timestamp],
                        score |-> sims[i]]
      all == UNION {{[k \in 1..Len(idx) |-> node(p[k], sims)] :
                       p \in permutations(1..Len(idx))} :
                    sims \in [1..Len(idx) -> Similarities]}
  IN  {r \in all : \A k \in 1..(Len(r) - 1) : r[k].score >= r[k + 1].score}

\* the same query with the filter on user_id alone
retrieve_relevant_context_any_room(ranked, user_id, room_id, top_k, index_ok) ==
  LET where(n) == n.metadata.user_id = user_id
      n_results == IF top_k = 0 THEN SIMILARITY_TOP_K ELSE top_k
  IN  IF index_ok
      THEN [raised |-> FALSE, nodes |-> first_n(SelectSeq(ranked, where), n_results)]
      ELSE [raised |-> FALSE, nodes |-> <<>>]

\* MemoryManager.retrieve_relevant_context: the index is asked for the
\* n_results most similar documents whose metadata equals user_id and, if a
\* room is given, room_id; their score is 1 - distance.  top_k = 0 stands for
\* None (top_k or config.SIMILARITY_TOP_K).  index_ok = FALSE: the index
\* raises during the query; the  except Exception  of the method returns [].
retrieve_relevant_context(ranked, user_id, room_id, top_k, index_ok) ==
  LET where(n) == /\ n.metadata.user_id = user_id
                  /\ room_id # NoRoom => n.metadata.room_id = room_id
      n_results == IF top_k = 0 THEN SIMILARITY_TOP_K ELSE top_k
  IN  IF index_ok
      THEN [raised |-> FALSE, nodes |-> first_n(SelectSeq(ranked, where), n_results)]
      ELSE [raised |-> FALSE, nodes |-> <<>>]

\* the ids of S by confidence DESC (equal confidences: by id)
RECURSIVE order_by_confidence_desc(_, _)
order_by_confidence_desc(tbl, S) ==
  IF S = {} THEN <<>>
  ELSE LET top == CHOOSE i \in S :
                    \A j \in S : \/ tbl[i].confidence > tbl[j].confidence
                                 \/ tbl[i].confidence = tbl[j].confidence /\ i <= j
       IN  <<top>> \o order_by_confidence_desc(tbl, S \ {top})

\* the summary of all records, whatever their confidence
get_preference_summary_all(tbl, user_id) ==
  LET preferences == order_by_confidence_desc(tbl, get_user_preferences(tbl, user_id, 0))
      types == {tbl[preferences[k]].preference_type : k \in 1..Len(preferences)}
      of_type(t) == LET is_t(i) == tbl[i].preference_type = t
                    IN  SelectSeq(preferences, is_t)
  IN  [t \in types |->
         [k \in 1..Len(of_type(t)) |->
            <<tbl[of_type(t)[k]].preference_value, tbl[of_type(t)[k]].confidence>>]]

\* PreferenceLearner.get_preference_summary: for every type with a record at
\* or above the threshold, the (value, confidence) pairs in the order of the
\* store's answer
get_preference_summary(tbl, user_id) ==
  LET preferences == order_by_confidence_desc(
                       tbl, get_user_preferences(tbl, user_id, PREFERENCE_CONFIDENCE_THRESHOLD))
      types == {tbl[preferences[k]].preference_type : k \in 1..Len(preferences)}
      of_type(t) == LET is_t(i) == tbl[i].preference_type = t
                    IN  SelectSeq(preferences, is_t)
  IN  [t \in types |->
         [k \in 1..Len(of_type(t)) |->
            <<tbl[of_type(t)[k]].preference_value, tbl[of_type(t)[k]].confidence>>]]

\* the same with the header of the preference block always written
format_context_for_llm_empty_header(tbl, ranked, user_id, room_id, index_ok) ==
  LET retrieved == retrieve_relevant_context(ranked, user_id, room_id, 0, index_ok)
      nodes == IF retrieved.raised THEN <<>> ELSE retrieved.nodes
      pref_summary == get_preference_summary(tbl, user_id)
      room_found == room_id # NoRoom /\ room_id \in Rooms
      room_block == IF room_found
                    THEN <<[header |-> "## Room Context", lines |-> 1]>>
                    ELSE <<>>
      pref_block == <<[header |-> "## User Preferences",
                       lines |-> Cardinality(DOMAIN pref_summary)]>>
      conv_block == IF nodes # <<>>
                    THEN <<[header |-> "## Relevant Past Conversations",
                            lines |-> Len(nodes)]>>
                    ELSE <<>>
  IN  [retrieved |-> retrieved,
       raised |-> FALSE,
       context |-> room_block \o pref_block \o conv_block]

\* MemoryManager.format_context_for_llm: the blocks of the context, in the
\* order they are appended to context_parts; each block is its header and
\* the number of its lines
format_context_for_llm(tbl, ranked, user_id, room_id, index_ok) ==
  LET retrieved == retrieve_relevant_context(ranked, user_id, room_id, 0, index_ok)
      nodes == IF retrieved.raised THEN <<>> ELSE retrieved.nodes
      pref_summary == get_preference_summary(tbl, user_id)
      room_found == room_id # NoRoom /\ room_id \in Rooms
      room_block == IF room_found
                    THEN <<[header |-> "## Room Context", lines |-> 1]>>
                    ELSE <<>>
      pref_block == IF DOMAIN pref_summary # {}
                    THEN <<[header |-> "## User Preferences",
                            lines |-> Cardinality(DOMAIN pref_summary)]>>
                    ELSE <<>>
      conv_block == IF nodes # <<>>
                    THEN <<[header |-> "## Relevant Past Conversations",
                            lines |-> Len(nodes)]>>
                    ELSE <<>>
  IN  [retrieved |-> retrieved,
       raised |-> FALSE,
       context |-> room_block \o pref_block \o conv_block]

\* a generation request builds its context
build_context(user_id, room_id, index_ok, ranked) ==
  LET r == format_context_for_llm(table, ranked, user_id, room_id, index_ok)
  IN  /\ steps' = steps + 1
      /\ last' = [op |-> "format_context_for_llm",
                  user_id |-> user_id,
                  room_id |-> room_id,
                  index_ok |-> index_ok,
                  retrieved |-> r.retrieved,
                  raised |-> r.raised,
                  context |-> r.context]
      /\ UNCHANGED <<table, now, versions, tasks, index, calls>>

\* a direct call of MemoryManager.get_preference_summary
preference_summary(user_id) ==
  /\ steps' = steps + 1
  /\ last' = [op |-> "get_preference_summary",
              user_id |-> user_id,
              summary |-> get_preference_summary(table, user_id)]
  /\ UNCHANGED <<table, now, versions, tasks, index, calls>>

\* a direct call of MemoryManager.retrieve_relevant_context
retrieve_context(user_id, room_id, top_k, index_ok, ranked) ==
  LET r == retrieve_relevant_context(ranked, user_id, room_id, top_k, index_ok)
  IN  /\ steps' = steps + 1
      /\ last' = [op |-> "retrieve_relevant_context",
                  user_id |-> user_id,
                  room_id |-> room_id,
                  top_k |-> top_k,
                  index_ok |-> index_ok,
                  ranked |-> ranked,
                  raised |-> r.raised,
                  nodes |-> r.nodes]
      /\ UNCHANGED <<table, now, versions, tasks, index, calls>>

\* ------------------------------------------------------------------------
\* Hybrid retriever (retriever.py, HybridRetriever).  Scores are in
\* ten-thousandths: similarity and recency in thousandths, weighted 7 and 3.
\* ------------------------------------------------------------------------
\* 2 ** (-r / 7) for r = 0..6 days, in thousandths (index r + 1)
RecencyWithinWeek == <<1000, 905, 820, 742, 672, 609, 552>>

\* 2 ** (-age_days / 7) for an age of whole days
recency_of_age_days(age_days) ==
  RecencyWithinWeek[(age_days % 7) + 1] \div Pow(2, age_days \div 7)

\* 2 ** (-age_days / 7) for an age of whole weeks
recency_score(age_weeks) == 1000 \div Pow(2, age_weeks)

\* The timestamp metadata of a candidate as _retrieve can meet it:
\*   "naive"     an ISO string without offset, of day `day`
\*   "aware"     an ISO string with an offset or ending in Z, of day `day`
\*   "absent"    no timestamp key (None); "empty" the string ''
\*   "malformed" a string that is no ISO date
\*   "number"    a value without a replace method (int, float)
\*   "datetime"  a datetime object in place of a string
Timestamp(kind, day) == [kind |-> kind, day |-> day]

\* the recency of a timestamp that carries none
DEFAULT_RECENCY == 500

\* Lines 72-82 of _retrieve for one candidate.  A falsy value takes the else
\* branch.  fromisoformat raises ValueError on a malformed string and the
\* call of replace AttributeError on a number: both are caught.  An aware
\* timestamp parses, and subtracting it from the naive utcnow() raises
\* TypeError, as does datetime.replace("Z", "+00:00"): neither is caught.
timestamp_recency(timestamp, current_day) ==
  IF timestamp.kind \in {"absent", "empty"}
  THEN [raised |-> FALSE, recency |-> DEFAULT_RECENCY]
  ELSE IF timestamp.kind \in {"malformed", "number"}
  THEN [raised |-> FALSE, recency |-> DEFAULT_RECENCY]
  ELSE IF timestamp.kind = "naive"
  THEN [raised |-> FALSE, recency |-> recency_of_age_days(current_day - timestamp.day)]
  ELSE [raised |-> TRUE, recency |-> 0]

\* similarity_weight * similarity_score + recency_weight * recency_score
final_score(similarity_score, recency) == 7 * similarity_score + 3 * recency

\* list.sort(key=score, reverse=True): stable, highest score first
RECURSIVE sort_by_score_desc(_)
sort_by_score_desc(nodes) ==
  IF nodes = <<>> THEN <<>>
  ELSE LET k == CHOOSE i \in 1..Len(nodes) :
                  /\ \A j \in 1..Len(nodes) : nodes[i].score >= nodes[j].score
                  /\ \A j \in 1..(i - 1) : nodes[j].score < nodes[i].score
           rest == [j \in 1..(Len(nodes) - 1) |->
                      IF j < k THEN nodes[j] ELSE nodes[j + 1]]
       IN  <<nodes[k]>> \o sort_by_score_desc(rest)

\* the base retriever (VectorStoreManager.get_retriever): the
\* similarity_top_k most similar documents of the whole index
base_retrieve(ranked) == first_n(ranked, SIMILARITY_TOP_K)

\* HybridRetriever._retrieve.  user_id "" and room_id "" stand for None (no
\* filter).  base_ok = FALSE: base_retriever.retrieve raises; nothing in the
\* method catches it.
HybridRetriever_retrieve(base_nodes, base_ok, user_id, room_id, top_k, current_time) ==
  IF ~base_ok
  THEN [raised |-> TRUE, nodes |-> <<>>]
  ELSE LET keep(n) == /\ user_id # "" => n.metadata.user_id = user_id
                      /\ room_id # NoRoom => n.metadata.room_id = room_id
           filtered_nodes == SelectSeq(base_nodes, keep)
           rescored_nodes ==
             [k \in 1..Len(filtered_nodes) |->
                [filtered_nodes[k] EXCEPT
                   !.score = final_score(
                               filtered_nodes[k].score,
                               recency_score(current_time
                                             - filtered_nodes[k].metadata.timestamp))]]
       IN  [raised |-> FALSE,
            nodes |-> first_n(sort_by_score_desc(rescored_nodes), top_k)]

\* HybridRetriever._retrieve on candidates whose timestamp metadata is a
\* Timestamp, with the clock in days.  An exception while a candidate is
\* rescored leaves the method.
HybridRetriever_retrieve_stamped(base_nodes, user_id, room_id, top_k, current_day) ==
  LET keep(n) == /\ user_id # "" => n.metadata.user_id = user_id
                 /\ room_id # NoRoom => n.metadata.room_id = room_id
      filtered_nodes == SelectSeq(base_nodes, keep)
      recency(k) == timestamp_recency(filtered_nodes[k].metadata.timestamp, current_day)
      rescored_nodes ==
        [k \in 1..Len(filtered_nodes) |->
           [filtered_nodes[k] EXCEPT
              !.score = final_score(filtered_nodes[k].score, recency(k).recency)]]
  IN  IF \E k \in 1..Len(filtered_nodes) : recency(k).raised
      THEN [raised |-> TRUE, nodes |-> <<>>]
      ELSE [raised |-> FALSE,
            nodes |-> first_n(sort_by_score_desc(rescored_nodes), top_k)]

\* a query through a HybridRetriever built for user_id, room_id and top_k
\* (top_k = 0 stands for None: top_k or config.SIMILARITY_TOP_K)
hybrid_retrieve(user_id, room_id, top_k, base_ok, ranked) ==
  LET r == HybridRetriever_retrieve(base_retrieve(ranked), base_ok, user_id, room_id,
                                    IF top_k = 0 THEN SIMILARITY_TOP_K ELSE top_k, now)
  IN  /\ steps' = steps + 1
      /\ last' = [op |-> "HybridRetriever.retrieve",
                  user_id |-> user_id,
                  room_id |-> room_id,
                  top_k |-> top_k,
                  index_ok |-> base_ok,
                  ranked |-> ranked,
                  raised |-> r.raised,
                  nodes |-> r.nodes]
      /\ UNCHANGED <<table, now, versions, tasks, index, calls>>

\* a query through a HybridRetriever on candidates with Timestamp metadata,
\* on day current_day
hybrid_retrieve_stamped(user_id, room_id, top_k, ranked, current_day) ==
  LET r == HybridRetriever_retrieve_stamped(
             base_retrieve(ranked), user_id, room_id,
             IF top_k = 0 THEN SIMILARITY_TOP_K ELSE top_k, current_day)
  IN  /\ steps' = steps + 1
      /\ last' = [op |-> "HybridRetriever.retrieve",
                  user_id |-> user_id,
                  room_id |-> room_id,
                  top_k |-> top_k,
                  index_ok |-> TRUE,
                  ranked |-> ranked,
                  current_day |-> current_day,
                  raised |-> r.raised,
                  nodes |-> r.nodes]
      /\ UNCHANGED <<table, now, versions, tasks, index, calls>>

\* ------------------------------------------------------------------------
\* Specifications.  Each runs a group of operations of the engine from the
\* empty store, for a bounded number of operations.
\* ------------------------------------------------------------------------
candidates(text) == Len(extract_preferences_from_text(text, Requester, NoRoom))

no_fault == [fail_at |-> 0, fault |-> NoFault]

\* direct calls of the confidence updater, with every store fault
NextUpdate ==
  /\ steps < UpdateSteps
  /\ \E u \in Users, d \in Deltas, f \in Faults, sel \in sel_choices(table) :
       update_confidence(u, <<"style", "modern">>, d, NoRoom, f, sel)

SpecUpdate == Init /\ [][NextUpdate]_vars

\* the learning hooks without store faults: messages, selection with its
\* background task, rejection and feedback
NextLearn ==
  /\ steps < LearnSteps
  /\ \/ \E room \in Rooms, d \in DesignDescriptions :
          create_design_version(room, d)
     \/ \E u \in Users, m \in MessageTexts, role \in MessageRole, embed_ok \in BOOLEAN :
          /\ embed_ok => Len(index) < MaxDocs
          /\ store_conversation(u, m, role, NoRoom, embed_ok, no_fault, 0)
     \/ \E u \in Users, v \in 1..MaxVersions, image \in {"none", "valid", "unknown"} :
          select_design(u, v, image)
     \/ learn_preferences_background(no_fault, 0)
     \/ \E room \in Rooms, v \in 1..MaxVersions, fb \in FeedbackTexts :
          reject_design(room, v, Requester, fb, no_fault, 0)
     \/ \E fb \in FeedbackTexts, pos \in BOOLEAN :
          submit_feedback(Requester, fb, pos, NoRoom, no_fault, 0)

SpecLearn == Init /\ [][NextLearn]_vars

\* records are created and updated, time passes, decay passes run without
\* store faults
NextDecay ==
  /\ steps < DecaySteps
  /\ \/ tick
     \/ \E u \in Users, key \in PrefKeys, d \in SeedDeltas :
          update_confidence(u, key, d, NoRoom, NoFault, 0)
     \/ \E u \in Users, rate \in DecayRates :
          decay(u, rate, "none", 0, "none", {})

SpecDecay == Init /\ [][NextDecay]_vars

\* decay passes of one user with store faults
NextFaulty ==
  /\ steps < FaultySteps
  /\ \/ tick
     \/ \E key \in PrefKeys, d \in SeedDeltas :
          update_confidence(Requester, key, d, NoRoom, NoFault, 0)
     \/ \E rate \in DecayRates :
          \/ \E lf \in {"none", "api", "other"} :
               decay(Requester, rate, lf, 0, "none", {})
          \/ \E i \in get_user_preferences(table, Requester, 0), kind \in {"api", "other"} :
               /\ now - table[i].updated_at > 0
               /\ \E before \in before_choices(table, Requester, i) :
                    decay(Requester, rate, "none", i, kind, before)

SpecFaulty == Init /\ [][NextFaulty]_vars

\* messages are indexed, preferences learned, contexts built and the hybrid
\* retriever queried
NextContext ==
  /\ steps < ContextSteps
  /\ \/ \E u \in Users, m \in MessageTexts, role \in {"user", "agent"}, room \in RoomArgs,
           embed_ok \in BOOLEAN :
          /\ embed_ok => Len(index) < MaxDocs
          /\ store_conversation(u, m, role, room, embed_ok, no_fault, 0)
     \/ \E u \in Users :
          submit_feedback(u, MsgLoveWarmModern, TRUE, NoRoom, no_fault, 0)
     \/ \E u \in Users, room \in RoomArgs \cup {UnknownRoom}, index_ok \in BOOLEAN,
           ranked \in query_rankings(index) :
          build_context(u, room, index_ok, ranked)
     \/ \E u \in Users, room \in RoomArgs, base_ok \in BOOLEAN,
           ranked \in query_rankings(index) :
          hybrid_retrieve(u, room, 0, base_ok, ranked)

SpecContext == Init /\ [][NextContext]_vars

\* records of two users are created, raised, lowered and decayed, and the
\* summaries are asked for
NextSummary ==
  /\ steps < SummarySteps
  /\ \/ tick
     \/ \E u \in Users, key \in SummaryKeys, d \in SummaryDeltas :
          update_confidence(u, key, d, NoRoom, NoFault, 0)
     \/ \E u \in Users :
          decay(u, [num |-> 1, den |-> 2], "none", 0, "none", {})
     \/ \E u \in Users : preference_summary(u)

SpecSummary == Init /\ [][NextSummary]_vars

\* the extractor is called on texts put together from the fragments
NextExtract ==
  /\ steps < ExtractSteps
  /\ \E text \in ExtractorTexts : extract(text)

SpecExtract == Init /\ [][NextExtract]_vars

\* the learning hooks of one user with store faults at any of their update
\* calls
NextHookFaults ==
  /\ steps < HookFaultSteps
  /\ \/ \E room \in Rooms, d \in DesignDescriptions :
          create_design_version(room, d)
     \/ \E m \in MessageTexts, sel \in sel_choices(table) :
          \E fc \in message_fault_choices(candidates(m)) :
            store_conversation(Requester, m, "user", NoRoom, FALSE, fc, sel)
     \/ \E v \in 1..MaxVersions, image \in {"none", "valid"} :
          select_design(Requester, v, image)
     \/ /\ tasks # <<>>
        /\ \E fc \in fault_choices(candidates(Head(tasks).description)),
              sel \in sel_choices(table) :
             learn_preferences_background(fc, sel)
     \/ \E room \in Rooms, v \in 1..MaxVersions, sel \in sel_choices(table) :
          \E fc \in fault_choices(candidates(DescModernLivingRoom \o <<" ">>
                                              \o DefaultRejectFeedback)) :
            reject_design(room, v, Requester, DefaultRejectFeedback, fc, sel)
     \/ \E fb \in FeedbackTexts, pos \in BOOLEAN, sel \in sel_choices(table) :
          \E fc \in fault_choices(candidates(fb)) :
            submit_feedback(Requester, fb, pos, NoRoom, fc, sel)

SpecHookFaults == Init /\ [][NextHookFaults]_vars

\* agent messages of both users and rooms are indexed at different times and
\* the two retrievers are queried, with the default top_k and with top_k = 1
NextRetrieve ==
  /\ steps < RetrieveSteps
  /\ \/ tick
     \/ \E u \in Users, room \in RoomArgs :
          /\ Len(index) < MaxIndexed
          /\ store_conversation(u, MsgHello, "agent", room, TRUE, no_fault, 0)
     \/ \E u \in Users, room \in RoomArgs, top_k \in {0, 1},
           ranked \in query_rankings(index) :
          retrieve_context(u, room, top_k, TRUE, ranked)
     \/ \E u \in Users, room \in RoomArgs, top_k \in {0, 1},
           ranked \in query_rankings(index) :
          hybrid_retrieve(u, room, top_k, TRUE, ranked)

SpecRetrieve == Init /\ [][NextRetrieve]_vars

\* update calls of two server processes on one store, their lookups and
\* writes interleaved in every order
NextConcurrent ==
  /\ steps < ConcurrentSteps
  /\ \/ tick
     \/ \E w \in Workers, u \in Users, key \in SummaryKeys, sel \in sel_choices(table) :
          begin_update(w, u, key, sel)
     \/ \E w \in Workers : finish_update(w)

SpecConcurrent == Init /\ [][NextConcurrent]_vars

\* the day of the queries on stamped candidates
RankToday == 30

\* ages in days, similarities and timestamps of the candidates
RankAges == {0, 7, 30}

RankSimilarities == {800, 900}

RankTimestamps ==
  {Timestamp("naive", RankToday - a) : a \in RankAges}
  \cup {Timestamp("aware", RankToday)}
  \cup {Timestamp(k, 0) : k \in {"absent", "empty", "malformed", "number", "datetime"}}

\* the answers of the index over one or two documents of one user: most
\* similar first, equally similar ones in either order
stamped_rankings ==
  LET node(i, sims, stamps) ==
        [doc |-> i,
         metadata |-> [user_id |-> Requester, room_id |-> NoRoom,
                       role |-> "agent", timestamp |-> stamps[i]],
         score |-> sims[i]]
      all == UNION {UNION {{[k \in 1..n |-> node(p[k], sims, stamps)] :
                             p \in permutations(1..n)} :
                           sims \in [1..n -> RankSimilarities],
                           stamps \in [1..n -> RankTimestamps]} :
                    n \in 1..2}
  IN  {r \in all : \A k \in 1..(Len(r) - 1) : r[k].score >= r[k + 1].score}

\* queries over candidates of every age and with every kind of timestamp,
\* through MemoryManager and through a HybridRetriever
NextRank ==
  /\ steps < RankSteps
  /\ \/ \E ranked \in stamped_rankings :
          retrieve_context(Requester, NoRoom, 0, TRUE, ranked)
     \/ \E ranked \in stamped_rankings, top_k \in {0, 1} :
          hybrid_retrieve_stamped(Requester, NoRoom, top_k, ranked, RankToday)

SpecRank == Init /\ [][NextRank]_vars

\* the life of preference records: messages, selections with their
\* background task, rejections, feedback, the passing of time and decay
\* passes, without store faults
NextLifecycle ==
  /\ steps < LifecycleSteps
  /\ \/ tick
     \/ \E room \in Rooms, d \in DesignDescriptions :
          create_design_version(room, d)
     \/ \E u \in Users, m \in MessageTexts :
          store_conversation(u, m, "user", NoRoom, FALSE, no_fault, 0)
     \/ \E v \in 1..MaxVersions : select_design(Requester, v, "none")
     \/ learn_preferences_background(no_fault, 0)
     \/ \E room \in Rooms, v \in 1..MaxVersions, fb \in FeedbackTexts :
          reject_design(room, v, Requester, fb, no_fault, 0)
     \/ \E fb \in FeedbackTexts, pos \in BOOLEAN :
          submit_feedback(Requester, fb, pos, NoRoom, no_fault, 0)
     \/ \E u \in Users, rate \in DecayRates :
          decay(u, rate, "none", 0, "none", {})

SpecLifecycle == Init /\ [][NextLifecycle]_vars

\* the extractor and the feedback hook are handed texts and values that are
\* no text
ExtractorInputs == {Input(TRUE, t) : t \in ExtractorTexts} \cup {NonTextInput}

FeedbackInputs == {Input(TRUE, t) : t \in FeedbackTexts} \cup {NonTextInput}

NextInputs ==
  /\ steps < InputSteps
  /\ \/ \E input \in ExtractorInputs : extract_input(input)
     \/ \E input \in FeedbackInputs, pos \in BOOLEAN :
          feedback_input(Requester, input, pos)

SpecInputs == Init /\ [][NextInputs]_vars

\* one record of one user: a call that runs alone creates it, then update
\* calls and decay passes of two server processes interleave on it
NextLostUpdate ==
  /\ steps < LostUpdateSteps
  /\ \/ tick
     \/ /\ table = <<>>
        /\ \A w \in Workers : calls[w] = NoCall
        /\ update_confidence(Requester, <<"style", "modern">>, 100, NoRoom, NoFault, 0)
     \/ \E w \in Workers :
          /\ table # <<>>
          /\ begin_update(w, Requester, <<"style", "modern">>, 0)
     \/ \E w \in Workers : finish_update(w)
     \/ \E w \in Workers, rate \in DecayRates :
          /\ table # <<>>
          /\ begin_decay(w, Requester, rate)
     \/ \E w \in Workers : finish_decay(w)

SpecLostUpdate == Init /\ [][NextLostUpdate]_vars

\* selections of one user, with and without an image, on a store that may
\* already hold records of the user; no store faults.  The event loop runs
\* every task it was given: the task step is not subject to the bound on the
\* requests, and the scheduling is weakly fair to it.
NextSelection ==
  \/ /\ steps < SelectionSteps
     /\ \/ \E room \in Rooms, d \in SelectionDescriptions :
             create_design_version(room, d)
        \/ \E pos \in BOOLEAN :
             submit_feedback(Requester, MsgLoveWarmModern, pos, NoRoom, no_fault, 0)
        \/ \E v \in 1..MaxVersions, image \in {"none", "valid", "unknown"} :
             select_design(Requester, v, image)
  \/ learn_preferences_background(no_fault, 0)

\* the step of the event loop that runs the oldest pending task; in
\* NextSelection these are the steps of learn_preferences_background
task_runs == tasks # <<>> /\ tasks' = Tail(tasks)

SpecSelection ==
  /\ Init
  /\ [][NextSelection]_vars
  /\ WF_tasks(task_runs)

\* thresholds a caller passes (thousandths), and none
Thresholds == {NoThreshold, 0, 100, 500, 1000}

\* records of two users are created and changed, and the manager is asked
\* for a user's preferences with every threshold
NextThreshold ==
  /\ steps < ThresholdSteps
  /\ \/ \E u \in Users, key \in PrefKeys, d \in SummaryDeltas :
          update_confidence(u, key, d, NoRoom, NoFault, 0)
     \/ \E u \in Users, t \in Thresholds :
          manager_get_user_preferences(u, t)

SpecThreshold == Init /\ [][NextThreshold]_vars

\* the whole engine
Next ==
  NextUpdate \/ NextLearn \/ NextDecay \/ NextFaulty \/ NextContext \/ NextRetrieve
  \/ NextHookFaults \/ NextExtract \/ NextSummary \/ NextConcurrent
  \/ NextRank \/ NextLifecycle \/ NextInputs \/ NextLostUpdate
  \/ NextSelection \/ NextThreshold

Spec == Init /\ [][Next]_vars

\* ------------------------------------------------------------------------
\* Properties.
\* ------------------------------------------------------------------------
is_update(l) == l.op = "update_preference_confidence"

\* C1: after every call of update_preference_confidence, whatever the delta,
\* the confidence of every stored record lies between 0.0 and 1.0.
ConfidenceClamped ==
  \A i \in 1..Len(table) : table[i].confidence >= 0 /\ table[i].confidence <= 1000

\* an existing record at 1.0 after a call with delta +2.0
ConfidenceClampedWitness ==
  /\ is_update(last)
  /\ last.fault = NoFault
  /\ last.confidence_delta = 2000
  /\ last.found # 0
  /\ table[last.found].confidence = 1000

\* C2: after any number of sequential calls of update_preference_confidence
\* for one (user_id, type, value), also when a lookup failed with a store
\* error, exactly one record exists for the tuple: never two, and one after
\* every call that returned.
UpsertUniqueness ==
  /\ \A i, j \in 1..Len(table) :
       (/\ table[i].user_id = table[j].user_id
        /\ table[i].preference_type = table[j].preference_type
        /\ table[i].preference_value = table[j].preference_value) => i = j
  /\ (is_update(last) /\ ~last.raised) =>
       Cardinality(matching_rows(table, last.user_id, last.preference_type,
                                 last.preference_value)) = 1

\* C3: a call without a store fault follows the reference rule: a record of
\* the exact (user_id, type, value) gets clamp(old + delta, 0, 1) and no other
\* row changes; with no such record one row is added with
\* clamp(0.3 + delta, 0, 1).  The call returns that confidence.
UpdateFollowsRule ==
  [][(is_update(last') /\ last'.fault = NoFault) =>
       LET d == last'.confidence_delta
           rows == matching_rows(table, last'.user_id, last'.preference_type,
                                 last'.preference_value)
           n == Len(table)
       IN  IF rows # {}
           THEN /\ Len(table') = n
                /\ \E i \in rows :
                     /\ table'[i].confidence =
                          (IF table[i].confidence + d < 0 THEN 0
                           ELSE IF table[i].confidence + d > 1000 THEN 1000
                           ELSE table[i].confidence + d)
                     /\ last'.confidence = table'[i].confidence
                     /\ \A j \in 1..n : j # i => table'[j] = table[j]
           ELSE /\ Len(table') = n + 1
                /\ SubSeq(table', 1, n) = table
                /\ table'[n + 1].user_id = last'.user_id
                /\ table'[n + 1].preference_type = last'.preference_type
                /\ table'[n + 1].preference_value = last'.preference_value
                /\ table'[n + 1].confidence =
                     (IF 300 + d < 0 THEN 0
                      ELSE IF 300 + d > 1000 THEN 1000
                      ELSE 300 + d)
                /\ last'.confidence = table'[n + 1].confidence]_vars

\* an existing record moved from 0.4 to 0.7 by delta +0.3
UpdateFollowsRuleWitness ==
  /\ is_update(last)
  /\ last.fault = NoFault
  /\ last.found # 0
  /\ last.confidence_delta = 300
  /\ table[last.found].confidence = 700

\* ------------------------------------------------------------------------
\* The learning hooks.
\* ------------------------------------------------------------------------
\* the stored confidence of (user_id, type, value); -1 when there is no row
conf_of(tbl, user_id, preference_type, preference_value) ==
  LET rows == matching_rows(tbl, user_id, preference_type, preference_value)
  IN  IF rows = {} THEN -1 ELSE tbl[CHOOSE i \in rows : TRUE].confidence

\* the (type, value) pairs of the rows of one user
keys_of(tbl, user_id) ==
  {<<tbl[i].preference_type, tbl[i].preference_value>> :
     i \in {j \in 1..Len(tbl) : tbl[j].user_id = user_id}}

hook_of(l) ==
  IF l.op = "store_conversation" /\ l.role = "user"
  THEN [text |-> l.message, user_id |-> l.user_id, delta |-> 100]
  ELSE IF l.op = "learn_preferences_background"
  THEN [text |-> l.description, user_id |-> l.user_id, delta |-> 300]
  ELSE IF l.op = "submit_feedback"
  THEN [text |-> l.feedback_text, user_id |-> l.user_id,
        delta |-> IF l.is_positive THEN 200 ELSE -200]
  ELSE IF l.op = "reject_design" /\ l.version # 0
  THEN [text |-> l.feedback_text, user_id |-> l.user_id, delta |-> -200]
  ELSE [text |-> <<>>, user_id |-> "", delta |-> 0]

\* C5: every learning hook applies exactly one update per extracted
\* (type, value) candidate, with the delta of its signal source: +0.1 for a
\* message, +0.3 for a selected design, +0.2 for positive feedback, -0.2 for
\* negative feedback and for a rejection, whatever the candidate's own base
\* weight; rows that are no candidate stay as they were.
HookDeltas ==
  [][LET h == hook_of(last')
     IN  h.delta # 0 =>
           LET found == extract_preferences_from_text(h.text, h.user_id, NoRoom)
               keys == {<<found[k].preference_type, found[k].preference_value>> :
                          k \in 1..Len(found)}
               old(key) == conf_of(table, h.user_id, key[1], key[2])
               new(key) == conf_of(table', h.user_id, key[1], key[2])
               start(key) == IF old(key) = -1 THEN 300 ELSE old(key)
           IN  /\ Len(last'.log) = Len(found)
               /\ \A k \in 1..Len(found) :
                    /\ last'.log[k].preference_type = found[k].preference_type
                    /\ last'.log[k].preference_value = found[k].preference_value
                    /\ last'.log[k].confidence_delta = h.delta
               /\ \A key \in keys :
                    new(key) = (IF start(key) + h.delta < 0 THEN 0
                                ELSE IF start(key) + h.delta > 1000 THEN 1000
                                ELSE start(key) + h.delta)
               /\ \A key \in keys_of(table', h.user_id) \ keys :
                    new(key) = old(key)
               /\ \A i \in 1..Len(table) :
                    table[i].user_id # h.user_id => table'[i] = table[i]]_vars

\* a rejection lowered both candidates of its text, (style, modern) whose
\* base weight is 0.1 and (warmth, warm) whose base weight is 0.15, by 0.2
HookDeltasWitness ==
  /\ last.op = "reject_design"
  /\ last.status = 200
  /\ Len(last.log) = 2
  /\ last.log[1].found # 0
  /\ last.log[2].found # 0
  /\ conf_of(table, Requester, "style", "modern") = 200
  /\ conf_of(table, Requester, "warmth", "warm") = 200

\* ------------------------------------------------------------------------
\* Decay.
\* ------------------------------------------------------------------------
is_decay(l) == l.op = "apply_time_decay"

\* confidence * weekly_rate^weeks is under the 0.05 floor
under_floor(confidence, rate, weeks) ==
  confidence * Pow(rate.num, weeks) < 50 * Pow(rate.den, weeks)

\* what a record of this confidence shows when decay evaluates it `weeks`
\* after its updated_at
value_after(confidence, rate, weeks) ==
  IF weeks <= 0 THEN confidence
  ELSE IF under_floor(confidence, rate, weeks) THEN 0
  ELSE (confidence * Pow(rate.num, weeks)) \div Pow(rate.den, weeks)

\* C6: idempotence of decay: a second decay pass of the same user at the same
\* instant as the first (zero elapsed time between the two calls) leaves
\* every record's confidence as the first pass left it, whatever time had
\* elapsed before the first pass.
DecayIdempotent ==
  [][(/\ is_decay(last)
      /\ is_decay(last')
      /\ last'.user_id = last.user_id
      /\ now' = now) =>
       /\ Len(table') = Len(table)
       /\ \A i \in 1..Len(table) : table'[i].confidence = table[i].confidence]_vars

\* a second pass at the same instant, after a first pass that decayed a
\* record from 0.4 to 0.38 one week after its last update
DecayIdempotentWitness ==
  /\ is_decay(last)
  /\ last.repeated
  /\ now > 0
  /\ \E i \in last.visited :
       /\ last.prior[i].confidence = 380
       /\ last.prior[i].updated_at = now
       /\ table[i].confidence = 380

\* C7: decay monotonicity: with updated_at in the past and a weekly rate
\* under 1, the confidence decay produces at a later evaluation time is
\* strictly lower than at every earlier one, until it is 0, and it is exactly
\* 0 once the decayed value is under the 0.05 floor.
DecayMonotone ==
  [][is_decay(last') =>
       \A i \in last'.written :
         LET c == table[i].confidence
             weeks == now - table[i].updated_at
             r == table'[i].confidence
             rate == last'.decay_rate
         IN  /\ weeks > 0
             /\ rate.num < rate.den
             /\ \A earlier \in 0..(weeks - 1) :
                  \/ r < value_after(c, rate, earlier)
                  \/ r = 0 /\ value_after(c, rate, earlier) = 0
             /\ under_floor(c, rate, weeks) => r = 0
             /\ ~under_floor(c, rate, weeks) => r >= 50]_vars

\* a record evaluated two weeks after its update, still above the floor and
\* lower than it was
DecayMonotoneWitness ==
  /\ is_decay(last)
  /\ \E i \in last.written :
       /\ now - last.prior[i].updated_at >= 2
       /\ table[i].confidence > 0
       /\ table[i].confidence < last.prior[i].confidence

\* the pass visits every record of the user, whatever its confidence, and
\* deletes none
visits_all_keeps_all ==
  /\ last'.visited = {i \in 1..Len(table) : table[i].user_id = last'.user_id}
  /\ Len(table') = Len(table)
  /\ \A i \in 1..Len(table) :
       /\ table'[i].user_id = table[i].user_id
       /\ table'[i].preference_type = table[i].preference_type
       /\ table'[i].preference_value = table[i].preference_value

\* C8, as stated: a decay pass visits every record of the user regardless of
\* its confidence, and every visited record whose decayed value
\* confidence * weekly_rate^weeks is under 0.05 is stored with confidence
\* exactly 0.0 and stays in the store.
DecaySnapsEveryRecord ==
  [][is_decay(last') =>
       /\ visits_all_keeps_all
       /\ \A i \in last'.visited :
            LET weeks == now - table[i].updated_at
            IN  under_floor(table[i].confidence, last'.decay_rate, weeks)
                  => table'[i].confidence = 0]_vars

\* C8, amended: a decay pass visits every record of the user regardless of
\* its confidence, and every visited record with a positive elapsed time
\* since its updated_at whose decayed value is under 0.05 is stored with
\* confidence exactly 0.0 and stays in the store; a record with no elapsed
\* time is left as it is.
DecaySnapsElapsedRecords ==
  [][is_decay(last') =>
       /\ visits_all_keeps_all
       /\ \A i \in last'.visited :
            LET weeks == now - table[i].updated_at
            IN  /\ (weeks > 0 /\ under_floor(table[i].confidence, last'.decay_rate, weeks))
                     => table'[i].confidence = 0
                /\ weeks <= 0 => table'[i] = table[i]]_vars

\* a record of confidence 0.04 was snapped to 0.0 a week after its update and
\* is still in the store, next to a record of the same confidence that had
\* no elapsed time and kept its 0.04
DecaySnapsElapsedRecordsWitness ==
  /\ is_decay(last)
  /\ \E i, j \in last.visited :
       /\ last.prior[i].confidence = 40
       /\ last.prior[i].updated_at < now
       /\ table[i].confidence = 0
       /\ table[i].preference_value = last.prior[i].preference_value
       /\ last.prior[j].updated_at = now
       /\ table[j].confidence = 40

\* C9: a failure on one record of a decay pass, of any kind, does not keep
\* the pass from the other records: every other record of the user with
\* elapsed time is decayed and saved.
DecayErrorIsolation ==
  [][(is_decay(last') /\ last'.fail_at # 0) =>
       \A j \in {i \in 1..Len(table) : table[i].user_id = last'.user_id} :
         (j # last'.fail_at /\ now - table[j].updated_at > 0) =>
           /\ j \in last'.written
           /\ table'[j].confidence =
                value_after(table[j].confidence, last'.decay_rate,
                            now - table[j].updated_at)]_vars

\* ------------------------------------------------------------------------
\* Retrieval.
\* ------------------------------------------------------------------------
\* a context built while the index fails has no conversation block, and no
\* error reaches the caller of retrieve_relevant_context or of
\* format_context_for_llm
ContextFailSoft ==
  (last.op = "format_context_for_llm" /\ ~last.index_ok) =>
    /\ ~last.retrieved.raised
    /\ last.retrieved.nodes = <<>>
    /\ ~last.raised
    /\ \A k \in 1..Len(last.context) :
         last.context[k].header # "## Relevant Past Conversations"

\* C10: retriever fail-soft: when the semantic index raises or fails during
\* a query, retrieve returns the empty list and no error reaches its caller,
\* and the context is built without the conversation block.
RetrieverFailSoft ==
  /\ ContextFailSoft
  /\ (last.op = "HybridRetriever.retrieve" /\ ~last.index_ok) =>
       /\ ~last.raised
       /\ last.nodes = <<>>

\* ------------------------------------------------------------------------
\* Ranking and filtering of retrieved items.
\* ------------------------------------------------------------------------
is_retrieve(l) ==
  l.op \in {"retrieve_relevant_context", "HybridRetriever.retrieve"} /\ ~l.raised

\* the similarity the index gave to a returned item
similarity_of(l, n) ==
  LET k == CHOOSE k \in 1..Len(l.ranked) : l.ranked[k].doc = n.doc
  IN  l.ranked[k].score

\* 0.7 x similarity + 0.3 x recency of an item, in ten-thousandths
combined_score(l, n) ==
  7 * similarity_of(l, n) + 3 * (1000 \div Pow(2, now - n.metadata.timestamp))

\* the candidates of a query that pass its filters
passing(l) ==
  {k \in 1..Len(l.ranked) :
     /\ l.ranked[k].metadata.user_id = l.user_id
     /\ l.room_id # NoRoom => l.ranked[k].metadata.room_id = l.room_id}

\* the number of items a query asks for
asked(l) == IF l.top_k = 0 THEN 5 ELSE l.top_k

\* of two returned items, the younger of equal similarity and the more
\* similar of equal age comes first
ordered_by_age_and_similarity(l) ==
  \A i, j \in 1..Len(l.nodes) :
    LET a == l.nodes[i]
        b == l.nodes[j]
    IN  /\ (/\ similarity_of(l, a) = similarity_of(l, b)
            /\ a.metadata.timestamp > b.metadata.timestamp) => i < j
        /\ (/\ a.metadata.timestamp = b.metadata.timestamp
            /\ similarity_of(l, a) > similarity_of(l, b)) => i < j

\* the hybrid retriever alone puts the younger of two equally similar items
\* and the more similar of two items of one age first
HybridOrdering ==
  (last.op = "HybridRetriever.retrieve" /\ ~last.raised) =>
    ordered_by_age_and_similarity(last)

\* C11: retriever ordering: in the list retrieve returns, of two candidates of
\* equal similarity and different ages the younger ranks higher, and of two
\* candidates of equal age and different similarity the more similar ranks
\* higher.
RetrieverOrdering ==
  is_retrieve(last) => ordered_by_age_and_similarity(last)

\* the list is sorted by combined score, has at most the asked number of
\* items, and no candidate that passes the filters and was left out has a
\* higher combined score than a returned one
top_by_combined_score(l) ==
  /\ \A i \in 1..(Len(l.nodes) - 1) :
       combined_score(l, l.nodes[i]) >= combined_score(l, l.nodes[i + 1])
  /\ Len(l.nodes) <= asked(l)
  /\ Len(l.nodes) = Min(asked(l), Cardinality(passing(l)))
  /\ \A i \in 1..Len(l.nodes) : \E k \in passing(l) : l.ranked[k].doc = l.nodes[i].doc
  /\ \A k \in passing(l) :
       (\A i \in 1..Len(l.nodes) : l.nodes[i].doc # l.ranked[k].doc) =>
         \A i \in 1..Len(l.nodes) :
           combined_score(l, l.nodes[i]) >= combined_score(l, l.ranked[k])

\* the hybrid retriever alone returns the top_k items of highest combined
\* score, highest first
HybridTopK ==
  (last.op = "HybridRetriever.retrieve" /\ ~last.raised) =>
    top_by_combined_score(last)

\* C12: the list retrieve returns is sorted in non-increasing order of the
\* combined score 0.7 x similarity + 0.3 x recency and has at most top_k
\* items, the top_k of highest combined score among the candidates that pass
\* the filters.
RetrieverTopK ==
  is_retrieve(last) => top_by_combined_score(last)

\* C13: every item retrieve returns for user U has metadata user_id equal to
\* U and, when a room R is given, metadata room_id equal to R, whatever the
\* index holds.
RetrieverIsolation ==
  is_retrieve(last) =>
    \A i \in 1..Len(last.nodes) :
      /\ last.nodes[i].metadata.user_id = last.user_id
      /\ last.room_id # NoRoom => last.nodes[i].metadata.room_id = last.room_id

\* a query for one user and one room returned an item while the index also
\* held a document of another user or of no room
RetrieverIsolationWitness ==
  /\ is_retrieve(last)
  /\ last.room_id # NoRoom
  /\ last.nodes # <<>>
  /\ \E k \in 1..Len(last.ranked) :
       \/ last.ranked[k].metadata.user_id # last.user_id
       \/ last.ranked[k].metadata.room_id # last.room_id

\* ------------------------------------------------------------------------
\* Failures inside the learning hooks.
\* ------------------------------------------------------------------------
\* C14: message ingestion never fails because of learning: for a user
\* message, if the extraction or any preference update throws,
\* store_conversation still completes and returns the conversation record.
IngestionSurvivesLearning ==
  (last.op = "store_conversation" /\ last.role = "user") => last.returned

\* the second of the two updates of a user message threw, after the first
\* had been applied, and the message record was returned
IngestionSurvivesLearningWitness ==
  /\ last.op = "store_conversation"
  /\ last.role = "user"
  /\ last.learning_failed
  /\ last.returned
  /\ Len(last.log) = 2
  /\ ~last.log[1].raised
  /\ last.log[2].raised
  /\ conf_of(table, last.user_id, "style", "modern") = 400

\* C15: selection learning is fire-and-forget: select_design marks the
\* version selected and returns before any learning has touched the store,
\* leaving one background task; the task runs once and is gone whether it
\* failed or not, and it changes no version and answers no caller.
SelectionFireAndForget ==
  [][/\ (last'.op = "select_design" /\ last'.version # 0) =>
          /\ versions'[last'.version].selected
          /\ last'.status = 200
          /\ table' = table
          /\ Len(tasks') = Len(tasks) + 1
     /\ last'.op = "learn_preferences_background" =>
          /\ Len(tasks') = Len(tasks) - 1
          /\ versions' = versions]_vars

\* the background task of a selection failed at a store write; the version
\* stays selected and no task is left
SelectionFireAndForgetWitness ==
  /\ last.op = "learn_preferences_background"
  /\ last.learning_failed
  /\ last.fault.stage = "write"
  /\ tasks = <<>>
  /\ \E v \in 1..Len(versions) : versions[v].selected

\* C16: a store failure while a preference record is written (created or
\* updated) during feedback or selection learning leaves the learning hook
\* as an exception.
ExplicitSignalErrorsPropagate ==
  (/\ last.op \in {"submit_feedback", "reject_design", "learn_preferences_background"}
   /\ last.fault.stage = "write") =>
    \E k \in 1..Len(last.log) : last.log[k].raised

\* ------------------------------------------------------------------------
\* The extractor.
\* ------------------------------------------------------------------------
\* keyword occurs in text as a substring
occurs_in(text, keyword) ==
  \E i \in 0..(Len(text) - Len(keyword)) :
    \A j \in 1..Len(keyword) : text[i + j] = keyword[j]

\* the five keyword tables with their dimensions
Dimensions ==
  { <<"style", STYLE_KEYWORDS>>, <<"warmth", WARMTH_KEYWORDS>>,
    <<"complexity", COMPLEXITY_KEYWORDS>>, <<"color", COLOR_KEYWORDS>>,
    <<"material", MATERIAL_KEYWORDS>> }

\* the text holds a keyword of the entry (a value with its keywords)
holds_keyword(text_lower, entry) ==
  \E k \in 1..Len(entry.keywords) : occurs_in(text_lower, entry.keywords[k])

\* C17: extractor completeness and emptiness: for every text whose
\* lower-cased form contains a keyword of value V of dimension D the
\* extractor returns a candidate (D, V), values and dimensions not excluding
\* each other; for a text with no keyword of any dimension it returns the
\* empty list.
ExtractorComplete ==
  last.op = "extract_preferences_from_text" =>
    LET text_lower == lower(last.text)
        returned(D, V) ==
          \E i \in 1..Len(last.preferences) :
            /\ last.preferences[i].preference_type = D
            /\ last.preferences[i].preference_value = V
    IN  /\ \A d \in Dimensions : \A k \in 1..Len(d[2]) :
             holds_keyword(text_lower, d[2][k]) => returned(d[1], d[2][k].value)
        /\ (\A d \in Dimensions : \A k \in 1..Len(d[2]) :
              ~holds_keyword(text_lower, d[2][k]))
             => last.preferences = <<>>

\* "cleaningmetal": "clean" gives (style, modern) and (complexity, simple),
\* "metal" gives (style, industrial) and (material, metal)
ExtractorCompleteWitness ==
  /\ last.op = "extract_preferences_from_text"
  /\ last.text = FragCleaning \o FragMetal
  /\ Len(last.preferences) = 4
  /\ \E i \in 1..4 : /\ last.preferences[i].preference_type = "complexity"
                     /\ last.preferences[i].preference_value = "simple"
  /\ \E i \in 1..4 : /\ last.preferences[i].preference_type = "material"
                     /\ last.preferences[i].preference_value = "metal"

\* ------------------------------------------------------------------------
\* The preference summary.
\* ------------------------------------------------------------------------
\* the entries of a summary as (type, value, confidence)
summary_entries(summary) ==
  UNION {{<<t, summary[t][k][1], summary[t][k][2]>> : k \in 1..Len(summary[t])} :
         t \in DOMAIN summary}

RECURSIVE summary_size(_, _)
summary_size(summary, types) ==
  IF types = {} THEN 0
  ELSE LET t == CHOOSE t \in types : TRUE
       IN  Len(summary[t]) + summary_size(summary, types \ {t})

\* C18: the preference summary of a user lists exactly the user's records of
\* confidence 0.5 or more, grouped by dimension, each group by confidence
\* descending; a record under the threshold, decayed or lowered, down to 0.0,
\* is not in it.
SummaryAboveThreshold ==
  last.op = "get_preference_summary" =>
    LET listed == {i \in 1..Len(table) :
                     /\ table[i].user_id = last.user_id
                     /\ table[i].confidence >= 500}
    IN  /\ summary_entries(last.summary) =
             {<<table[i].preference_type, table[i].preference_value,
                table[i].confidence>> : i \in listed}
        /\ summary_size(last.summary, DOMAIN last.summary) = Cardinality(listed)
        /\ \A t \in DOMAIN last.summary :
             /\ last.summary[t] # <<>>
             /\ \A k \in 1..(Len(last.summary[t]) - 1) :
                  last.summary[t][k][2] >= last.summary[t][k + 1][2]

\* a summary with two styles, the one of higher confidence first, created in
\* the other order, while a third record of the user is under the threshold
SummaryAboveThresholdWitness ==
  /\ last.op = "get_preference_summary"
  /\ DOMAIN last.summary = {"style"}
  /\ Len(last.summary["style"]) = 2
  /\ last.summary["style"][1][2] > last.summary["style"][2][2]
  /\ \E i, j \in 1..Len(table) :
       /\ i < j
       /\ table[i].user_id = last.user_id
       /\ table[j].user_id = last.user_id
       /\ table[i].preference_type = "style"
       /\ table[j].preference_type = "style"
       /\ table[i].confidence = 500
       /\ table[j].confidence = 600
  /\ \E i \in 1..Len(table) :
       /\ table[i].user_id = last.user_id
       /\ table[i].confidence < 500

\* ------------------------------------------------------------------------
\* The formatted context.
\* ------------------------------------------------------------------------
\* C19: the context consists of exactly the blocks that have content, in the
\* order room context, preference summary, relevant conversations: a header
\* is there if and only if the room can be resolved, the user has a
\* preference at or above the threshold, an item was retrieved; with none of
\* the three the context is empty.
ContextBlocks ==
  last.op = "format_context_for_llm" =>
    LET has_room == last.room_id \in Rooms
        has_prefs == \E i \in 1..Len(table) :
                       /\ table[i].user_id = last.user_id
                       /\ table[i].confidence >= 500
        has_items == /\ last.index_ok
                     /\ \E i \in 1..Len(index) :
                          /\ index[i].user_id = last.user_id
                          /\ last.room_id # "" => index[i].room_id = last.room_id
        headers == [k \in 1..Len(last.context) |-> last.context[k].header]
    IN  /\ headers =
             (IF has_room THEN <<"## Room Context">> ELSE <<>>)
             \o (IF has_prefs THEN <<"## User Preferences">> ELSE <<>>)
             \o (IF has_items THEN <<"## Relevant Past Conversations">> ELSE <<>>)
        /\ \A k \in 1..Len(last.context) : last.context[k].lines > 0
        /\ (~has_room /\ ~has_prefs /\ ~has_items) => last.context = <<>>

\* a context with all three blocks, in order
ContextBlocksWitness ==
  /\ last.op = "format_context_for_llm"
  /\ Len(last.context) = 3
  /\ last.context[1].header = "## Room Context"
  /\ last.context[2].header = "## User Preferences"
  /\ last.context[3].header = "## Relevant Past Conversations"

\* ------------------------------------------------------------------------
\* Update calls that overlap.
\* ------------------------------------------------------------------------
\* C20: with update calls of several processes for the same tuple under way
\* at once, their lookups and creates interleaved in any order, no
\* (user_id, type, value) tuple ever has more than one record.
ConcurrentUpsertUniqueness ==
  \A u \in Users, key \in SummaryKeys :
    Cardinality(matching_rows(table, u, key[1], key[2])) <= 1

\* ------------------------------------------------------------------------
\* Ranking scenario and timestamps.
\* ------------------------------------------------------------------------
\* the document of the ranked answer with this similarity and age
scenario_doc(ranked, similarity, age) ==
  {ranked[k].doc : k \in {j \in 1..Len(ranked) :
                            /\ ranked[j].score = similarity
                            /\ ranked[j].metadata.timestamp =
                                 Timestamp("naive", RankToday - age)}}

\* a query whose two candidates are the ones of the scenario
is_scenario(l) ==
  /\ l.op \in {"retrieve_relevant_context", "HybridRetriever.retrieve"}
  /\ l.top_k = 0
  /\ Len(l.ranked) = 2
  /\ scenario_doc(l.ranked, 900, 30) # {}
  /\ scenario_doc(l.ranked, 800, 0) # {}

\* C21: of two candidates of one user, one of similarity 0.9 and age 30 days,
\* one of similarity 0.8 and age 0, retrieve ranks the second first.
RankingScenario ==
  is_scenario(last) =>
    /\ ~last.raised
    /\ Len(last.nodes) = 2
    /\ last.nodes[1].doc \in scenario_doc(last.ranked, 800, 0)

\* the same for the HybridRetriever alone, with the two combined scores
HybridRankingScenario ==
  (is_scenario(last) /\ last.op = "HybridRetriever.retrieve") =>
    /\ Len(last.nodes) = 2
    /\ last.nodes[1].doc \in scenario_doc(last.ranked, 800, 0)
    /\ last.nodes[1].score = 7 * 800 + 3 * 1000
    /\ last.nodes[2].score = 7 * 900 + 3 * 51

HybridRankingScenarioWitness ==
  is_scenario(last) /\ last.op = "HybridRetriever.retrieve"

\* ------------------------------------------------------------------------
\* Persistence of the returned record.
\* ------------------------------------------------------------------------
\* C22: after an update call returned a record with confidence c, a lookup
\* of its (user_id, type, value) in the store yields a record with
\* confidence c, also when the write to the store failed.
ReturnedRecordPersisted ==
  (is_update(last) /\ ~last.raised) =>
    \E i \in matching_rows(table, last.user_id, last.preference_type,
                           last.preference_value) :
      table[i].confidence = last.confidence

\* the same for the calls whose store operations all succeeded
ReturnedRecordPersistedWithoutFault ==
  (is_update(last) /\ ~last.raised /\ last.fault = NoFault) =>
    \E i \in matching_rows(table, last.user_id, last.preference_type,
                           last.preference_value) :
      /\ table[i].confidence = last.confidence
      /\ last.found # 0 => i = last.found

ExtractionNeverFatal ==
  last.op \in {"extract_preferences_from_input", "learn_from_feedback_input"} =>
    /\ ~last.raised
    /\ (last.op = "extract_preferences_from_input" /\ ~last.input.is_text) =>
         last.preferences = <<>>

\* on a text the extraction does not raise, whatever the text
ExtractionTotalOnText ==
  (last.op = "extract_preferences_from_input" /\ last.input.is_text) => ~last.raised

\* ------------------------------------------------------------------------
\* Timestamps the retriever cannot interpret.
\* ------------------------------------------------------------------------
\* the timestamp kinds that carry no usable time
uninterpretable(timestamp) == timestamp.kind # "naive"

\* the candidate of the ranked answer a returned node stems from
origin(l, node) == CHOOSE k \in 1..Len(l.ranked) : l.ranked[k].doc = node.doc

is_hybrid_stamped(l) ==
  /\ l.op = "HybridRetriever.retrieve"
  /\ \E k \in 1..Len(l.ranked) : uninterpretable(l.ranked[k].metadata.timestamp)

\* C25: a candidate whose timestamp is absent, empty, malformed, no string
\* or qualified with a timezone gets the recency score 0.5, and the query
\* still returns its ranked result: it does not fail.
BadTimestampDefaults ==
  is_hybrid_stamped(last) =>
    /\ ~last.raised
    /\ Len(last.nodes) = Min(Len(last.ranked),
                             IF last.top_k = 0 THEN SIMILARITY_TOP_K ELSE last.top_k)
    /\ \A n \in 1..Len(last.nodes) :
         LET c == last.ranked[origin(last, last.nodes[n])]
         IN  uninterpretable(c.metadata.timestamp) =>
               last.nodes[n].score = 7 * c.score + 3 * 500
    /\ \A n \in 1..(Len(last.nodes) - 1) :
         last.nodes[n].score >= last.nodes[n + 1].score

\* the same for the timestamps the two except clauses and the else branch
\* cover: absent, empty, malformed, a number
CaughtTimestampDefaults ==
  (/\ is_hybrid_stamped(last)
   /\ \A k \in 1..Len(last.ranked) :
        last.ranked[k].metadata.timestamp.kind \notin {"aware", "datetime"}) =>
    /\ ~last.raised
    /\ \A n \in 1..Len(last.nodes) :
         LET c == last.ranked[origin(last, last.nodes[n])]
         IN  uninterpretable(c.metadata.timestamp) =>
               last.nodes[n].score = 7 * c.score + 3 * 500

\* ------------------------------------------------------------------------
\* Lost updates.
\* ------------------------------------------------------------------------
\* the other server process
other(w) == CHOOSE o \in Workers : o # w

\* C26: an update of a record is a read-modify-write that is not atomic: the
\* write of an update call stores the confidence read at its lookup plus the
\* delta, and the write of a decay pass the decayed value of the confidence
\* it read, whatever was written to the record in between; so when two of
\* them interleave on one record the change written in between is lost.
ReadModifyWriteNotAtomic ==
  /\ (last.op = "finish_update" /\ last.found # 0) =>
       table[last.found].confidence =
         clamp_existing(last.read[1].confidence, last.confidence_delta)
  /\ last.op = "finish_decay" =>
       \A i \in last.written :
         table[i].confidence =
           decayed_confidence(last.read[i].confidence, last.decay_rate,
                              last.current_time - last.read[i].updated_at)

\* two update calls have interleaved on a record and the final confidence is
\* the one of neither serial order: it holds the change of one call only
ReadModifyWriteNotAtomicWitness ==
  /\ last.op = "finish_update"
  /\ last.found # 0
  /\ LET c0 == last.read[1].confidence
         mine == last.confidence_delta
         theirs == worker_delta(other(last.worker))
         final == table[last.found].confidence
     IN  /\ last.stored[1].confidence = clamp_existing(c0, theirs)
         /\ last.stored[1].confidence # c0
         /\ final = clamp_existing(c0, mine)
         /\ final # clamp_existing(clamp_existing(c0, theirs), mine)
         /\ final # clamp_existing(clamp_existing(c0, mine), theirs)

\* an update call has run between the read and the write of a decay pass and
\* the final confidence is the one of neither serial order
DecayLosesUpdateWitness ==
  /\ last.op = "finish_decay"
  /\ \E i \in last.written, w \in Workers :
       LET c0 == last.read[i].confidence
           weeks == last.current_time - last.read[i].updated_at
           decayed == decayed_confidence(c0, last.decay_rate, weeks)
           updated == clamp_existing(c0, worker_delta(w))
       IN  /\ last.stored[i].confidence = updated
           /\ updated # c0
           /\ table[i].confidence = decayed
           /\ decayed # updated
           /\ decayed # clamp_existing(decayed, worker_delta(w))

\* ------------------------------------------------------------------------
\* Selections reach the store.
\* ------------------------------------------------------------------------
\* the (type, value) pairs found in a text by the extractor
extracted_keys(text) ==
  LET preferences == extract_preferences_from_text(text, Requester, NoRoom)
  IN  {<<preferences[k].preference_type, preferences[k].preference_value>> :
         k \in 1..Len(preferences)}

\* the confidence of the user's record of this pair, -1 if there is none
stored_confidence(tbl, user_id, key) ==
  LET rows == matching_rows(tbl, user_id, key[1], key[2])
  IN  IF rows = {} THEN -1 ELSE tbl[CHOOSE i \in rows : TRUE].confidence

\* the task of a selection is pending
selection_pending == tasks # <<>>

\* the step of the task applies +0.3 once to each pair of the description
applies_selection_once ==
  last'.op = "learn_preferences_background" =>
    /\ Len(tasks') = Len(tasks) - 1
    /\ \A key \in extracted_keys(last'.description) :
         stored_confidence(table', last'.user_id, key) =
           IF stored_confidence(table, last'.user_id, key) = -1
           THEN clamp_new(300)
           ELSE clamp_existing(stored_confidence(table, last'.user_id, key), 300)
    /\ \A i \in 1..Len(table) :
         <<table[i].preference_type, table[i].preference_value>>
           \notin extracted_keys(last'.description) => table'[i] = table[i]

\* C27: after select_design for an existing version its learning task runs
\* eventually, and when it runs each (type, value) extracted from the
\* version's description gets +0.3 exactly once, with or without an image.
SelectionReachesStore ==
  /\ selection_pending ~> (last.op = "learn_preferences_background" /\ tasks = <<>>)
  /\ [][applies_selection_once]_vars

\* the task of a selection with an image has run and both pairs of the
\* description hold the +0.3
SelectionReachesStoreWitness ==
  /\ last.op = "learn_preferences_background"
  /\ last.image_url
  /\ last.description = DescWarmModernRoom
  /\ stored_confidence(table, Requester, <<"style", "modern">>) = 600
  /\ stored_confidence(table, Requester, <<"warmth", "warm">>) = 600

\* ------------------------------------------------------------------------
\* Rejection of a version that does not exist.
\* ------------------------------------------------------------------------
rejects_missing_version == last'.op = "reject_design" /\ last'.version = 0

\* C28: rejecting a design version that does not exist answers 404 'Design
\* not found' and changes nothing: no version is marked rejected, no
\* preference record is created or modified.
RejectMissingVersion ==
  [][rejects_missing_version =>
       /\ last'.status = 404
       /\ versions' = versions
       /\ table' = table]_vars

\* the part of it about the store: nothing changes
RejectMissingVersionChangesNothing ==
  [][rejects_missing_version =>
       /\ versions' = versions
       /\ table' = table
       /\ tasks' = tasks
       /\ index' = index]_vars

\* ------------------------------------------------------------------------
\* The threshold of MemoryManager.get_user_preferences.
\* ------------------------------------------------------------------------
is_manager_query(l) == l.op = "MemoryManager.get_user_preferences"

\* the user's records at or above t
at_or_above(user_id, t) ==
  {i \in 1..Len(table) : table[i].user_id = user_id /\ table[i].confidence >= t}

\* C29: get_user_preferences(user_id, t) of the manager returns exactly the
\* user's records with confidence >= t for every threshold passed, 0.0
\* included (then all records); the default 0.5 is used only when no
\* threshold is passed.
ManagerThreshold ==
  is_manager_query(last) =>
    last.returned =
      at_or_above(last.user_id,
                  IF last.confidence_threshold = NoThreshold
                  THEN 500 ELSE last.confidence_threshold)

\* the same for the thresholds other than 0.0
ManagerThresholdNonZero ==
  (is_manager_query(last) /\ last.confidence_threshold # 0) =>
    last.returned =
      at_or_above(last.user_id,
                  IF last.confidence_threshold = NoThreshold
                  THEN 500 ELSE last.confidence_threshold)

\* ------------------------------------------------------------------------
\* Messages that are not the user's.
\* ------------------------------------------------------------------------
\* C30: store_conversation with role agent or system creates and modifies no
\* preference record, whatever keywords the text holds: every record keeps
\* its confidence, updated_at and source_room_id.
OnlyUserMessagesLearn ==
  [][(last'.op = "store_conversation" /\ last'.role # "user") =>
       /\ table' = table
       /\ last'.log = <<>>]_vars

\* an agent reply with style keywords was stored while the store holds
\* records of these keywords
OnlyUserMessagesLearnWitness ==
  /\ last.op = "store_conversation"
  /\ last.role = "agent"
  /\ last.message = MsgLoveWarmModern
  /\ extract_preferences_from_text(last.message, last.user_id, NoRoom) # <<>>
  /\ \E i \in 1..Len(table) :
       /\ table[i].user_id = last.user_id
       /\ table[i].preference_type = "style"
       /\ table[i].preference_value = "modern"
====
